---- MODULE Spec2Model ----
(***************************************************************************)
(* Verification model of file_process_system: the tiered requirement       *)
(* matchers (BidAnswerMatcher, RequirementAnalyzer), the batch drivers,    *)
(* the document processing job and the bid document structure parser.      *)
(***************************************************************************)
EXTENDS Integers, Sequences, FiniteSets, TLC

(***************************************************************************)
(* Exact rational arithmetic for similarity scores and confidences.        *)
(* Python computes them in binary64; the only place where binary64 and     *)
(* exact arithmetic disagree on a threshold test is 0.75 * 1.2, see        *)
(* TitleWeighted below.                                                    *)
(***************************************************************************)
Frac(n, d) == [n |-> n, d |-> d]
Zero == Frac(0, 1)
One == Frac(1, 1)
GE(x, y) == x.n * y.d >= y.n * x.d
GT(x, y) == x.n * y.d > y.n * x.d
EQ(x, y) == x.n * y.d = y.n * x.d
\* Python max(a, b): b only when b > a
FMax(x, y) == IF GT(y, x) THEN y ELSE x
\* Python min(a, b): b only when b < a
FMin(x, y) == IF GT(x, y) THEN y ELSE x

(***************************************************************************)
(* Text.  A text is a sequence of characters.  "a" "b" "c" are ASCII       *)
(* lower-case letters and "C" is the upper-case c; "y" "q" "d" stand for   *)
(* the CJK characters of the stop words '要求' (y q) and '的' (d); " " is  *)
(* white space and "," is punctuation.                                     *)
(***************************************************************************)
WordChars == {"a", "b", "c", "C", "y", "q", "d"}
WhiteSpace == {" "}

\* the code's stopword set restricted to the modelled alphabet: '要求', '的'
stopwords == {<<"y", "q">>, <<"d">>}

Take(s, k) == SubSeq(s, 1, IF Len(s) < k THEN Len(s) ELSE k)

\* str.lower() on one character
Lower(c) == IF c = "C" THEN "c" ELSE c

\* re.sub(r'[^一-龥a-zA-Z0-9]', '', text).lower()
RECURSIVE _clean_text(_)
_clean_text(text) ==
    IF text = <<>> THEN <<>>
    ELSE IF Head(text) \in WordChars
         THEN <<Lower(Head(text))>> \o _clean_text(Tail(text))
         ELSE _clean_text(Tail(text))

\* str.strip()
RECURSIVE LStrip(_)
LStrip(s) == IF s # <<>> /\ Head(s) \in WhiteSpace THEN LStrip(Tail(s)) ELSE s
RECURSIVE RStrip(_)
RStrip(s) == IF s # <<>> /\ s[Len(s)] \in WhiteSpace
             THEN RStrip(SubSeq(s, 1, Len(s) - 1)) ELSE s
Strip(s) == RStrip(LStrip(s))

\* re.findall(r'[一-龥a-zA-Z0-9]+', text): the maximal runs of word characters
RECURSIVE FindWords(_, _)
FindWords(text, cur) ==
    IF text = <<>> THEN (IF cur = <<>> THEN <<>> ELSE <<cur>>)
    ELSE IF Head(text) \in WordChars
         THEN FindWords(Tail(text), Append(cur, Head(text)))
         ELSE (IF cur = <<>> THEN <<>> ELSE <<cur>>) \o FindWords(Tail(text), <<>>)

KeywordCap == 15
ExactKeywordCap == 5

\* BidAnswerMatcher._extract_keywords
_extract_keywords(text) ==
    IF text = <<>> THEN <<>>
    ELSE LET words == FindWords(text, <<>>)
             keep(w) == w \notin stopwords /\ Len(w) > 1
         IN Take(SelectSeq(words, keep), KeywordCap)

\* SQL  hay LIKE '%needle%'
Like(hay, needle) ==
    \E i \in 0..(Len(hay) - Len(needle)) : SubSeq(hay, i + 1, i + Len(needle)) = needle

(***************************************************************************)
(* difflib.SequenceMatcher(None, a, b).ratio(): the longest matching block *)
(* (longest, then earliest in a, then earliest in b), applied recursively  *)
(* to the pieces left and right of it.                                     *)
(***************************************************************************)
BlockAt(a, b, i, j, k) ==
    /\ i + k - 1 <= Len(a)
    /\ j + k - 1 <= Len(b)
    /\ SubSeq(a, i, i + k - 1) = SubSeq(b, j, j + k - 1)

find_longest_match(a, b) ==
    LET blocks == {t \in (1..Len(a)) \X (1..Len(b)) \X (1..Len(a)) :
                       BlockAt(a, b, t[1], t[2], t[3])}
        better(s, t) == \/ s[3] > t[3]
                        \/ s[3] = t[3] /\ s[1] < t[1]
                        \/ s[3] = t[3] /\ s[1] = t[1] /\ s[2] < t[2]
    IN IF blocks = {} THEN <<1, 1, 0>>
       ELSE CHOOSE s \in blocks : \A t \in blocks : t = s \/ better(s, t)

RECURSIVE MatchCount(_, _)
MatchCount(a, b) ==
    IF a = <<>> \/ b = <<>> THEN 0
    ELSE LET m == find_longest_match(a, b)
             i == m[1]
             j == m[2]
             k == m[3]
         IN IF k = 0 THEN 0
            ELSE k + MatchCount(SubSeq(a, 1, i - 1), SubSeq(b, 1, j - 1))
                   + MatchCount(SubSeq(a, i + k, Len(a)), SubSeq(b, j + k, Len(b)))

\* _calculate_ratio: 2.0 * matches / length, 1.0 when both are empty
ratio(a, b) ==
    IF Len(a) + Len(b) = 0 THEN One
    ELSE Frac(2 * MatchCount(a, b), Len(a) + Len(b))


(***************************************************************************)
(* The knowledge base read by both matchers: tables chapters and           *)
(* doc_process_records.  Rows are kept as a bag: kb_chapters[k] is the     *)
(* number of stored chapters with title k.title, content k.content in      *)
(* document k.doc.                                                         *)
(***************************************************************************)
Kinds ==
    { [title |-> <<"y", "q">>,      content |-> <<"c", "c">>,           doc |-> 1],
      [title |-> <<"a", "b">>,      content |-> <<>>,                   doc |-> 1],
      [title |-> <<"d", "d">>,      content |-> <<"a", "b">>,           doc |-> 1],
      [title |-> <<"c", "c">>,      content |-> <<"a", "b", "y", "q">>, doc |-> 1],
      [title |-> <<"a">>,           content |-> <<"b", "b">>,           doc |-> 1],
      [title |-> <<"a", "b">>,      content |-> <<"a", "b">>,           doc |-> 2] }

NoChapter == [title |-> <<>>, content |-> <<>>, doc |-> 0]

\* requirement texts handed to the matchers
ReqTexts ==
    { <<>>, <<" ">>, <<"y", "q">>, <<"a">>, <<"a", "b">>,
      <<"a", "b", " ", "C">>, <<"d", "d", ",", "d">> }

\* more rows than any LIMIT of the queries
Many == 51
\* at most this many distinct kinds of chapter are stored
MaxKinds == 2

\* doc_process_records: document 1 is completed, document 2 still processing;
\* both belong to the calling user
doc_process_records == [d \in {1, 2} |-> IF d = 1 THEN "completed" ELSE "processing"]

Stores == {s \in [Kinds -> {0, 1, Many}] : Cardinality({k \in Kinds : s[k] > 0}) <= MaxKinds}

VARIABLES
    matcher,              \* "BAM" BidAnswerMatcher, "RA" RequirementAnalyzer
    requirement_text,     \* the requirement of the current call
    knowledge_doc_ids,    \* document scope of the call (empty: all documents)
    enable_web_search,    \* argument of the call
    llm_service,          \* TRUE when an LLM collaborator is configured
    web_search_service,   \* TRUE when a web search collaborator is configured
    kb_chapters,          \* the stored chapters (bag over Kinds)
    pc,                   \* position of the call
    trace,                \* tiers invoked so far, in order
    produced,             \* tiers that produced a result
    raised,               \* tiers in which a collaborator call raised
    best_similarity,      \* local best_similarity of the exact tier
    result                \* the value returned by the call

VARIABLES
    driver,               \* "answer_requirements" or "analyze_requirements_batch"
    requirements,         \* the input list of the batch call
    progress_callback,    \* TRUE when the caller passed a callback
    results,              \* the list built by the batch call
    b_i,                  \* loop index of the batch call (1-based)
    b_pc                  \* position of the batch call

batchVars == <<driver, requirements, progress_callback, results, b_i, b_pc>>

VARIABLES
    chapters,             \* table chapters (rows of the one document)
    document_images,      \* table document_images
    chapter_images,       \* table chapter_images
    doc_status,           \* doc_process_records.status of the document
    next_chapter_id,      \* AUTO_INCREMENT of chapters
    next_image_id,        \* AUTO_INCREMENT of document_images
    parsed,               \* what WordParser.parse returns for the file
    inv,                  \* the invocations of process_document_task
    started,              \* number of invocations submitted so far
    faults                \* number of storage faults so far

jobVars == <<chapters, document_images, chapter_images, doc_status, next_chapter_id,
             next_image_id, parsed, inv, started, faults>>

VARIABLES
    file,                 \* the paragraphs of the Word file at file_path
    doc,                  \* BidDocumentParser.doc: the paragraphs of the loaded document
    heading_counters,     \* BidDocumentParser.heading_counters
    section_index,        \* BidDocumentParser.section_index (= document_structure)
    parse_log,            \* the structures returned since the document was loaded
    auto_numbered,        \* the headings the last parse numbered from their style:
                          \* level, generated number, counters afterwards
    title_log,            \* the calls of _parse_section_title in the last parse:
                          \* paragraph, result, counters before and afterwards
    answer                \* the last call of a lookup method and what it returned

parseVars == <<file, doc, heading_counters, section_index, parse_log, auto_numbered,
               title_log, answer>>

VARIABLES
    docx,                 \* WordParser.doc: the blocks of the Word file
    wp_chapters,          \* WordParser.chapters
    images,               \* WordParser.images
    _img_order_counter,   \* WordParser._img_order_counter
    temp_id_counter,      \* local temp_id_counter of parse
    block_index,          \* local block_index of parse
    current_chapter,      \* local current_chapter of parse (position in chapters)
    parent_stack,         \* local parent_stack of parse
    wp_pc,                \* position of the parse call
    parse_returns         \* the values returned by the parse calls so far

wordVars == <<docx, wp_chapters, images, _img_order_counter, temp_id_counter,
              block_index, current_chapter, parent_stack, wp_pc, parse_returns>>

matchVars == <<matcher, requirement_text, knowledge_doc_ids, enable_web_search,
               llm_service, web_search_service, kb_chapters, pc, trace, produced,
               raised, best_similarity, result>>

VARIABLES
    instruction,          \* the instruction text handed to UserInstructionParser
    parse_result          \* what parse_instruction returned for it

instrVars == <<instruction, parse_result>>

VARIABLES
    export_results,       \* the results handed to the export
    exported              \* the export called and what it emitted

exportVars == <<export_results, exported>>

VARIABLES
    record_status,        \* doc_process_records.status of the document
    timed_out,            \* process_start_time is older than TASK_TIMEOUT_MINUTES
    has_chapters,         \* rows of the document exist in chapters
    pd_req,               \* the process_document requests: position, response
    tasks,                \* number of process_document_task messages, by position
    rc,                   \* the run of recover_orphaned_tasks: position
    lost,                 \* number of tasks the worker lost so far
    finished              \* a run of process_document_task has ended

statusVars == <<record_status, timed_out, has_chapters, pd_req, tasks, rc, lost, finished>>

VARIABLES
    redis_available,      \* the module reached Redis when it was imported
    redis_store,          \* the session under the key upload:<upload_id>
    db_store,             \* the row of the session in upload_sessions
    chunk_files,          \* the indices i of the files chunk_<i> in the upload directory
    up_req,               \* the upload_chunk and complete_upload requests
    merge_started         \* merge_chunks_task was sent to Celery

uploadVars == <<redis_available, redis_store, db_store, chunk_files, up_req, merge_started>>

VARIABLES
    sem_matcher,          \* the matcher whose LLM-scored tier is called
    sem_len,              \* number of candidates the tier fetched
    sem_pick              \* position of the candidate the tier returned, 0 for None

semVars == <<sem_matcher, sem_len, sem_pick>>

\* what the actions of one component leave alone
outsideMatch ==
    <<batchVars, jobVars, parseVars, wordVars,
      instrVars, exportVars, statusVars, uploadVars,
      semVars>>
outsideBatch ==
    <<matchVars, jobVars, parseVars, wordVars,
      instrVars, exportVars, statusVars, uploadVars,
      semVars>>
outsideJob ==
    <<matchVars, batchVars, parseVars, wordVars,
      instrVars, exportVars, statusVars, uploadVars,
      semVars>>
outsideParse ==
    <<matchVars, batchVars, jobVars, wordVars,
      instrVars, exportVars, statusVars, uploadVars,
      semVars>>
outsideWord ==
    <<matchVars, batchVars, jobVars, parseVars,
      instrVars, exportVars, statusVars, uploadVars,
      semVars>>
outsideInstr ==
    <<matchVars, batchVars, jobVars, parseVars,
      wordVars, exportVars, statusVars, uploadVars,
      semVars>>
outsideExport ==
    <<matchVars, batchVars, jobVars, parseVars,
      wordVars, instrVars, statusVars, uploadVars,
      semVars>>
outsideStatus ==
    <<matchVars, batchVars, jobVars, parseVars,
      wordVars, instrVars, exportVars, uploadVars,
      semVars>>
outsideUpload ==
    <<matchVars, batchVars, jobVars, parseVars,
      wordVars, instrVars, exportVars, statusVars,
      semVars>>
outsideSem ==
    <<matchVars, batchVars, jobVars, parseVars,
      wordVars, instrVars, exportVars, statusVars,
      uploadVars>>

\* a tier returned Python None
NoResult == [match_type |-> "no_result", confidence |-> Zero, answer |-> "", chapter |-> NoChapter]

EXACT_MATCH_THRESHOLD == Frac(90, 100)
FUZZY_MATCH_THRESHOLD == Frac(60, 100)
SEMANTIC_MATCH_THRESHOLD == Frac(50, 100)

ExactLimit == 30
SemanticLimit == 40
TitleCut == 100
ContentCut == 300

RECURSIVE Count(_, _)
Count(kb, S) == IF S = {} THEN 0
                ELSE LET k == CHOOSE x \in S : TRUE IN kb[k] + Count(kb, S \ {k})

Min(a, b) == IF a < b THEN a ELSE b

\* dpr.username = %s AND dpr.status = 'completed' [AND c.document_id IN (...)]
InScope(k, doc_ids) ==
    /\ doc_process_records[k.doc] = "completed"
    /\ (doc_ids = {} \/ k.doc \in doc_ids)

\* number of rows a query with LIMIT returns
RowCount(kb, matching, limit) == Min(Count(kb, matching), limit)

\* fetch_all of a query with LIMIT and no ORDER BY: any RowCount rows of the
\* matching ones; the value is the set of kinds among the returned rows
FetchAll(kb, matching, limit) ==
    {S \in SUBSET {k \in matching : kb[k] > 0} :
        /\ Cardinality(S) <= RowCount(kb, matching, limit)
        /\ Count(kb, S) >= RowCount(kb, matching, limit)}

\* title_sim * 1.2 in binary64: 0.75 * 1.2 = 0.8999999999999999 < 0.9,
\* every other product compares with the thresholds as the exact value does
TitleWeighted(r) ==
    IF EQ(r, Frac(3, 4)) THEN Frac(8999, 10000) ELSE Frac(r.n * 12, r.d * 10)

BAM_similarity(req, k) ==
    LET cleaned_req == _clean_text(req)
        title_sim == ratio(Take(cleaned_req, TitleCut), _clean_text(k.title))
        content_sim == ratio(Take(cleaned_req, ContentCut),
                             Take(_clean_text(k.content), ContentCut))
    IN FMax(TitleWeighted(title_sim), content_sim)

\* the rows selected by the keyword filter of _exact_match
BAM_exact_rows(req, doc_ids) ==
    LET keywords == _extract_keywords(req)
        kws == Take(keywords, ExactKeywordCap)
    IN {k \in Kinds : /\ InScope(k, doc_ids)
                      /\ \E i \in 1..Len(kws) : Like(k.title, kws[i]) \/ Like(k.content, kws[i])}

\* line 1246: 'exact' if best_similarity >= EXACT_MATCH_THRESHOLD else 'semantic'
BAM_exact_label(best) ==
    IF GE(best, EXACT_MATCH_THRESHOLD) THEN "exact" ELSE "semantic"

\* line 1233: best_similarity >= FUZZY_MATCH_THRESHOLD
BAM_exact_accept(best) == GE(best, FUZZY_MATCH_THRESHOLD)

\* lines 1204-1258 of _exact_match on the fetched candidates: the possible
\* pairs of return value and best_similarity (the row order decides between
\* candidates of equal similarity)
BAM_exact_select(req, candidates) ==
    LET sim(k) == BAM_similarity(req, k)
        tops == {k \in candidates : GT(sim(k), Zero)
                                    /\ \A o \in candidates : GE(sim(k), sim(o))}
    IN IF candidates = {} \/ tops = {} THEN {<<NoResult, Zero>>}
       ELSE {<<IF BAM_exact_accept(sim(k))
               THEN [match_type |-> BAM_exact_label(sim(k)),
                     confidence |-> FMin(sim(k), One),
                     answer |-> "content", chapter |-> k]
               ELSE NoResult, sim(k)>> : k \in tops}


(***************************************************************************)
(* Collaborator behaviour.  Every call of a collaborator either raises or  *)
(* returns; what it returns is an input of the step.                       *)
(***************************************************************************)
DbOutcomes == {"ok", "raise"}
\* best_match_index values an LLM reply may carry
IdxChoices == {-1, 0, 1, 21, 51}
\* relevance_score values an LLM reply may carry
ScoreChoices == {Frac(3, 10), Frac(1, 2), Frac(1, 1), Frac(3, 2)}
\* cosine similarities the vector store reports (it filters by the threshold)
CosineChoices == {Frac(1, 2), Frac(1, 1)}
\* chat_completion for the scoring prompt: raises, returns text without a
\* usable JSON object, or returns the JSON object
ScoreReplies ==
    {[kind |-> "raise", idx |-> 0, score |-> Zero, summary |-> FALSE],
     [kind |-> "malformed", idx |-> 0, score |-> Zero, summary |-> FALSE]}
    \cup [kind : {"json"}, idx : IdxChoices, score : ScoreChoices, summary : BOOLEAN]
\* chat_completion for a free-text prompt: raises, or returns empty / non-empty text
TextReplies == {"raise", "", "text"}
\* web_search_service.search
WebOutcomes == {"raise", "empty", "hits"}

TierOrder == <<"exact", "semantic", "web", "generate">>
TierRank(t) == CHOOSE i \in 1..4 : TierOrder[i] = t

BAM_enabled_mut(t) ==
    CASE t = "exact" -> TRUE
      [] t = "semantic" -> llm_service
      [] t = "web" -> enable_web_search /\ web_search_service
      [] t = "generate" -> FALSE

\* the guards of match_requirement in front of each tier (lines 1133-1151)
BAM_enabled(t) ==
    CASE t = "exact" -> TRUE
      [] t = "semantic" -> llm_service
      [] t = "web" -> enable_web_search /\ web_search_service
      [] t = "generate" -> llm_service

\* the first enabled tier after rank i, "none" when there is none
NextTier(enabled(_), i) ==
    LET later == {j \in (i + 1)..4 : enabled(TierOrder[j])}
    IN IF later = {} THEN "none"
       ELSE TierOrder[CHOOSE j \in later : \A o \in later : j <= o]

BAM_flow_mut(tier, r) ==
    IF r # NoResult /\ tier # "exact" THEN "return"
    ELSE NextTier(BAM_enabled, TierRank(tier))

\* match_requirement, lines 1132-1157: return the tier's result or go on
BAM_flow(tier, r) ==
    IF r # NoResult THEN "return"
    ELSE NextTier(BAM_enabled, TierRank(tier))

\* lines 1121-1126 and 1156
BAM_none == [match_type |-> "none", confidence |-> Zero, answer |-> "not_found",
             chapter |-> NoChapter]
\* lines 1128-1130
BAM_empty == [match_type |-> "none", confidence |-> Zero, answer |-> "empty_requirement",
              chapter |-> NoChapter]

CallFrame == UNCHANGED <<matcher, requirement_text, knowledge_doc_ids, enable_web_search,
                         llm_service, web_search_service, kb_chapters, outsideMatch>>

\* a tier of BidAnswerMatcher returned r; exc: a collaborator call raised in it
BAM_return(tier, r, exc, best) ==
    LET to == BAM_flow(tier, r) IN
    /\ best_similarity' = best
    /\ trace' = Append(trace, tier)
    /\ raised' = IF exc THEN raised \cup {tier} ELSE raised
    /\ produced' = IF r # NoResult THEN produced \cup {tier} ELSE produced
    /\ pc' = IF to \in {"return", "none"} THEN "done" ELSE to
    /\ result' = IF r # NoResult THEN r ELSE IF to = "none" THEN BAM_none ELSE result
    /\ CallFrame

BAM_step(tier, r, exc) == BAM_return(tier, r, exc, best_similarity)

\* BidAnswerMatcher.match_requirement, entry (lines 1095-1133)
match_requirement ==
    /\ matcher = "BAM"
    /\ pc = "idle"
    /\ \E text \in ReqTexts, ids \in {{}, {1}}, web \in BOOLEAN :
          /\ requirement_text' = text
          /\ knowledge_doc_ids' = ids
          /\ enable_web_search' = web
          /\ trace' = <<>>
          /\ produced' = {}
          /\ raised' = {}
          /\ best_similarity' = Zero
          /\ IF Strip(text) = <<>>
             THEN pc' = "done" /\ result' = BAM_empty
             ELSE pc' = "exact" /\ result' = NoResult
    /\ UNCHANGED <<matcher, llm_service, web_search_service, kb_chapters, outsideMatch>>

\* BidAnswerMatcher._exact_match
BAM_exact_match ==
    /\ matcher = "BAM" /\ pc = "exact"
    /\ IF _extract_keywords(requirement_text) = <<>>
       THEN BAM_step("exact", NoResult, FALSE)
       ELSE \E db \in DbOutcomes :
              IF db = "raise"
              THEN BAM_step("exact", NoResult, TRUE)
              ELSE \E candidates \in FetchAll(kb_chapters,
                                     BAM_exact_rows(requirement_text, knowledge_doc_ids),
                                     ExactLimit) :
                     \E rb \in BAM_exact_select(requirement_text, candidates) :
                        BAM_return("exact", rb[1], FALSE, rb[2])

PromptCap == 20

\* lines 1326-1333 of _semantic_match: the position in candidates the reply
\* selects, 0 when it selects none
BAM_semantic_index(reply, len) ==
    IF reply.kind # "json" THEN 0
    ELSE IF reply.idx > 0 /\ GE(reply.score, SEMANTIC_MATCH_THRESHOLD) /\ reply.idx <= len
         THEN reply.idx
         ELSE 0

\* lines 1326-1357 of _semantic_match: the reply applied to the candidates
BAM_semantic_select(reply, candidates, len) ==
    IF BAM_semantic_index(reply, len) = 0 THEN {NoResult}
    ELSE {[match_type |-> "semantic", confidence |-> FMin(reply.score, One),
           answer |-> IF reply.summary THEN "summary" ELSE "content",
           chapter |-> k] : k \in candidates}

\* BidAnswerMatcher._semantic_match
BAM_semantic_match ==
    /\ matcher = "BAM" /\ pc = "semantic"
    /\ llm_service
    /\ \E db \in DbOutcomes :
         IF db = "raise"
         THEN BAM_step("semantic", NoResult, TRUE)
         ELSE LET rows == {k \in Kinds : InScope(k, knowledge_doc_ids) /\ k.content # <<>>}
                  len == RowCount(kb_chapters, rows, SemanticLimit)
              IN \E candidates \in FetchAll(kb_chapters, rows, SemanticLimit) :
                   IF candidates = {}
                   THEN BAM_step("semantic", NoResult, FALSE)
                   ELSE \E reply \in ScoreReplies :
                          \E r \in BAM_semantic_select(reply, candidates, len) :
                             BAM_step("semantic", r, reply.kind = "raise")

\* BidAnswerMatcher._web_search_match
BAM_web_search_match ==
    /\ matcher = "BAM" /\ pc = "web"
    /\ web_search_service
    /\ \E web \in WebOutcomes :
         CASE web = "raise" -> BAM_step("web", NoResult, TRUE)
           [] web = "empty" -> BAM_step("web", NoResult, FALSE)
           [] web = "hits" ->
                IF llm_service
                THEN \E reply \in TextReplies :
                       IF reply = "raise"
                       THEN BAM_step("web", [match_type |-> "web", confidence |-> Frac(4, 10),
                                             answer |-> "search_summary",
                                             chapter |-> NoChapter], TRUE)
                       ELSE BAM_step("web", [match_type |-> "web", confidence |-> Frac(5, 10),
                                             answer |-> reply, chapter |-> NoChapter], FALSE)
                ELSE BAM_step("web", [match_type |-> "web", confidence |-> Frac(4, 10),
                                      answer |-> "search_summary", chapter |-> NoChapter],
                              FALSE)

\* lines 1447-1457 of _llm_generate: the completion is returned whatever it is
BAM_generate_result(reply) ==
    [match_type |-> "llm_generated", confidence |-> Frac(3, 10), answer |-> reply,
     chapter |-> NoChapter]

\* BidAnswerMatcher._llm_generate
BAM_llm_generate ==
    /\ matcher = "BAM" /\ pc = "generate"
    /\ llm_service
    /\ \E reply \in TextReplies :
         IF reply = "raise"
         THEN BAM_step("generate", NoResult, TRUE)
         ELSE BAM_step("generate", BAM_generate_result(reply), FALSE)


(***************************************************************************)
(* RequirementAnalyzer                                                     *)
(***************************************************************************)
RA_TitleLimit == 5
RA_FuzzyLimit == 20
RA_SemanticLimit == 50
RA_TitleCut == 50
RA_SearchTermCut == 30
RA_ContentCut == 200

\* the tiers analyze_requirement reaches when the earlier ones return None
\* (lines 713, 734 with _search_from_web line 993, 747 with line 1049)
RA_enabled(t) ==
    CASE t = "exact" -> TRUE
      [] t = "semantic" -> TRUE
      [] t = "web" -> enable_web_search /\ web_search_service
      [] t = "generate" -> llm_service

\* analyze_requirement, lines 691-758
RA_flow(tier, r) ==
    IF r # NoResult THEN "return"
    ELSE NextTier(RA_enabled, TierRank(tier))

\* lines 754-756
RA_none == [match_type |-> "none", confidence |-> Zero, answer |-> "sorry_not_found",
            chapter |-> NoChapter]

\* a tier of RequirementAnalyzer returned r
RA_return(tier, r, exc, best) ==
    LET to == RA_flow(tier, r) IN
    /\ best_similarity' = best
    /\ trace' = Append(trace, tier)
    /\ raised' = IF exc THEN raised \cup {tier} ELSE raised
    /\ produced' = IF r # NoResult THEN produced \cup {tier} ELSE produced
    /\ pc' = IF to \in {"return", "none"} THEN "done" ELSE to
    /\ result' = IF r # NoResult THEN r ELSE IF to = "none" THEN RA_none ELSE result
    /\ CallFrame

RA_step(tier, r, exc) == RA_return(tier, r, exc, best_similarity)

\* an exception of a collaborator leaves analyze_requirement
RA_escape(tier) ==
    /\ trace' = Append(trace, tier)
    /\ raised' = raised \cup {tier}
    /\ pc' = "raised"
    /\ UNCHANGED <<produced, result, best_similarity>>
    /\ CallFrame

\* RequirementAnalyzer.analyze_requirement, entry (lines 650-692)
analyze_requirement ==
    /\ matcher = "RA"
    /\ pc = "idle"
    /\ \E text \in ReqTexts, ids \in {{}, {1}}, web \in BOOLEAN :
          /\ requirement_text' = text
          /\ knowledge_doc_ids' = ids
          /\ enable_web_search' = web
    /\ trace' = <<>>
    /\ produced' = {}
    /\ raised' = {}
    /\ best_similarity' = Zero
    /\ pc' = "exact"
    /\ result' = NoResult
    /\ UNCHANGED <<matcher, llm_service, web_search_service, kb_chapters, outsideMatch>>

\* line 829: max(title_sim, content_sim * 0.8)
RA_similarity(title, content, k) ==
    LET title_sim == ratio(_clean_text(title), _clean_text(k.title))
        content_sim == ratio(Take(_clean_text(content), RA_ContentCut),
                             Take(_clean_text(k.content), RA_ContentCut))
    IN FMax(title_sim, Frac(content_sim.n * 8, content_sim.d * 10))

\* lines 811-841: the best row at or above the threshold, with best_similarity
RA_fuzzy_select(title, content, fetched) ==
    LET sim(k) == RA_similarity(title, content, k)
        ok == {k \in fetched : GT(sim(k), Zero) /\ GE(sim(k), FUZZY_MATCH_THRESHOLD)}
        tops == {k \in ok : \A o \in ok : GE(sim(k), sim(o))}
    IN IF tops = {} THEN {<<NoResult, Zero>>}
       ELSE {<<[match_type |-> "exact", confidence |-> sim(k), answer |-> "content",
                chapter |-> k], sim(k)>> : k \in tops}

\* RequirementAnalyzer._exact_match_in_documents with lines 693-710
RA_exact_match_in_documents ==
    /\ matcher = "RA" /\ pc = "exact"
    /\ LET title == Take(requirement_text, RA_TitleCut)
           content == requirement_text
           byTitle == {k \in Kinds : InScope(k, knowledge_doc_ids) /\ k.title = title}
           search_term == Take(_clean_text(title), RA_SearchTermCut)
           byLike == {k \in Kinds : /\ InScope(k, knowledge_doc_ids)
                                    /\ (Like(k.title, search_term) \/ Like(k.content, search_term))}
       IN \E db1 \in DbOutcomes :
            IF db1 = "raise" THEN RA_escape("exact")
            ELSE \E fetched \in FetchAll(kb_chapters, byTitle, RA_TitleLimit) :
                   IF fetched # {}
                   THEN \E k \in fetched, path \in DbOutcomes :
                          IF path = "raise" THEN RA_escape("exact")
                          ELSE RA_return("exact", [match_type |-> "exact", confidence |-> One,
                                                   answer |-> "content", chapter |-> k],
                                         FALSE, One)
                   ELSE \E db2 \in DbOutcomes :
                          IF db2 = "raise" THEN RA_escape("exact")
                          ELSE \E fuzzy \in FetchAll(kb_chapters, byLike, RA_FuzzyLimit) :
                                 \E rb \in RA_fuzzy_select(title, content, fuzzy) :
                                    IF rb[1] = NoResult
                                    THEN RA_return("exact", NoResult, FALSE, rb[2])
                                    ELSE \E path \in DbOutcomes :
                                           IF path = "raise" THEN RA_escape("exact")
                                           ELSE RA_return("exact", rb[1], FALSE, rb[2])

\* line 981: best_match['similarity'] = score
RA_llm_confidence(score) == score

\* lines 971-985 of _llm_semantic_match; candidates[best_idx - 1] beyond the
\* list raises IndexError, which the except clause turns into None
RA_llm_index(reply, len) ==
    IF reply.kind # "json" THEN 0
    ELSE IF reply.idx > 0 /\ GE(reply.score, SEMANTIC_MATCH_THRESHOLD)
         THEN IF reply.idx <= len THEN reply.idx ELSE 0
         ELSE 0

RA_llm_select(reply, candidates, len) ==
    IF RA_llm_index(reply, len) = 0 THEN {NoResult}
    ELSE {[match_type |-> "semantic", confidence |-> RA_llm_confidence(reply.score),
           answer |-> "content", chapter |-> k] : k \in candidates}

\* RequirementAnalyzer._llm_semantic_match with lines 714-731
RA_llm_semantic_match(vectorRaised) ==
    IF ~llm_service THEN RA_step("semantic", NoResult, vectorRaised)
    ELSE \E db \in DbOutcomes :
           IF db = "raise" THEN RA_escape("semantic")
           ELSE LET rows == {k \in Kinds : InScope(k, knowledge_doc_ids) /\ k.content # <<>>}
                    len == RowCount(kb_chapters, rows, RA_SemanticLimit)
                IN \E candidates \in FetchAll(kb_chapters, rows, RA_SemanticLimit) :
                     IF candidates = {}
                     THEN RA_step("semantic", NoResult, vectorRaised)
                     \* the reply's answer_summary is not read here
                     ELSE \E reply \in {x \in ScoreReplies : ~x.summary} :
                            \E r \in RA_llm_select(reply, candidates, len) :
                               \/ RA_step("semantic", r,
                                          vectorRaised \/ reply.kind = "raise")
                               \* _get_chapter_path raises inside the try block
                               \/ r # NoResult /\ RA_step("semantic", NoResult, TRUE)

\* RequirementAnalyzer._semantic_match_in_documents: _vector_search_match,
\* then _llm_semantic_match
RA_semantic_match_in_documents ==
    /\ matcher = "RA" /\ pc = "semantic"
    /\ LET document_ids == IF knowledge_doc_ids # {} THEN knowledge_doc_ids
                           ELSE {d \in DOMAIN doc_process_records :
                                    doc_process_records[d] = "completed"}
           indexed == {k \in Kinds : kb_chapters[k] > 0 /\ k.doc \in document_ids}
       IN \E vec \in {"raise", "empty", "hit"} :
            CASE vec = "raise" -> RA_llm_semantic_match(TRUE)
              \* no hit, or the chapter of the best hit is no longer stored
              [] vec = "empty" -> RA_llm_semantic_match(FALSE)
              [] vec = "hit" ->
                   /\ indexed # {}
                   /\ \E k \in indexed, cos \in CosineChoices :
                        RA_step("semantic", [match_type |-> "semantic", confidence |-> cos,
                                             answer |-> "content", chapter |-> k], FALSE)

\* RequirementAnalyzer._search_from_web with lines 734-744
RA_search_from_web ==
    /\ matcher = "RA" /\ pc = "web"
    /\ web_search_service
    /\ \E web \in WebOutcomes :
         CASE web = "raise" -> RA_step("web", NoResult, TRUE)
           [] web = "empty" -> RA_step("web", NoResult, FALSE)
           [] web = "hits" ->
                IF llm_service
                THEN \E reply \in TextReplies :
                       IF reply = "raise"
                       THEN RA_step("web", [match_type |-> "web", confidence |-> Frac(5, 10),
                                            answer |-> "search_summary",
                                            chapter |-> NoChapter], TRUE)
                       ELSE RA_step("web", [match_type |-> "web", confidence |-> Frac(5, 10),
                                            answer |-> reply, chapter |-> NoChapter], FALSE)
                ELSE RA_step("web", [match_type |-> "web", confidence |-> Frac(5, 10),
                                     answer |-> "search_summary", chapter |-> NoChapter],
                             FALSE)

\* lines 747-756: an empty completion is no answer
RA_generate_result(reply) ==
    IF reply = "" THEN NoResult
    ELSE [match_type |-> "llm_generated", confidence |-> Frac(3, 10), answer |-> reply,
          chapter |-> NoChapter]

\* RequirementAnalyzer._generate_llm_answer with lines 747-758
RA_generate_llm_answer ==
    /\ matcher = "RA" /\ pc = "generate"
    /\ llm_service
    /\ \E reply \in TextReplies :
         IF reply = "raise"
         THEN RA_step("generate", NoResult, TRUE)
         ELSE RA_step("generate", RA_generate_result(reply), FALSE)


(***************************************************************************)
(* Specification of the matchers: one matcher object and one call.         *)
(***************************************************************************)
MatchInit ==
    /\ matcher \in {"BAM", "RA"}
    /\ llm_service \in BOOLEAN
    /\ web_search_service \in BOOLEAN
    /\ kb_chapters \in Stores
    /\ requirement_text = <<>>
    /\ knowledge_doc_ids = {}
    /\ enable_web_search = TRUE
    /\ pc = "idle"
    /\ trace = <<>>
    /\ produced = {}
    /\ raised = {}
    /\ best_similarity = Zero
    /\ result = NoResult

MatchNext ==
    \/ match_requirement
    \/ BAM_exact_match
    \/ BAM_semantic_match
    \/ BAM_web_search_match
    \/ BAM_llm_generate
    \/ analyze_requirement
    \/ RA_exact_match_in_documents
    \/ RA_semantic_match_in_documents
    \/ RA_search_from_web
    \/ RA_generate_llm_answer


(***************************************************************************)
(* Properties of the matchers                                              *)
(***************************************************************************)
\* a tier is configured and enabled for the current call
Configured(t) ==
    CASE t = "exact" -> TRUE
      [] t = "semantic" -> matcher = "RA" \/ llm_service
      [] t = "web" -> enable_web_search /\ web_search_service
      [] t = "generate" -> llm_service

Attempted == {trace[i] : i \in 1..Len(trace)}
Returned == pc = "done"
Blank == Strip(requirement_text) = <<>>

\* the match types a tier can report
TierTypes(t) ==
    CASE t = "exact" -> {"exact", "semantic"}
      [] t = "semantic" -> {"semantic"}
      [] t = "web" -> {"web"}
      [] t = "generate" -> {"llm_generated"}

\* C1: the tiers are invoked in the order exact, semantic, web, generative,
\* skipping only tiers that are not configured or disabled; the call returns
\* the result of the first tier that produced one and no tier is invoked
\* after a tier has produced a result.
C1_FirstTierWins ==
    /\ \A i, j \in 1..Len(trace) : i < j => TierRank(trace[i]) < TierRank(trace[j])
    /\ \A i \in 1..Len(trace) : trace[i] \in produced => i = Len(trace) /\ Returned
    /\ \A i \in 1..Len(trace) : \A t \in {TierOrder[j] : j \in 1..4} :
          TierRank(t) < TierRank(trace[i]) /\ Configured(t) => t \in Attempted
    /\ Returned /\ produced # {} =>
          /\ result # NoResult
          /\ result.match_type \in TierTypes(trace[Len(trace)])

C1_Witness ==
    /\ Returned
    /\ trace = <<"exact", "semantic", "web">>
    /\ produced = {"web"}
    /\ result.match_type = "web"

\* C2: a collaborator exception inside a tier makes that tier produce no
\* result and never leaves the matching call.
C2_TierFailureContained ==
    /\ pc # "raised"
    /\ \A t \in raised : t \notin produced

\* C3 as stated: "none" is returned only after every configured tier was
\* attempted and produced nothing.
C3_NoneOnlyAfterExhaustion ==
    matcher = "BAM" /\ Returned =>
        (result.match_type = "none" <=>
            /\ produced = {}
            /\ \A t \in {TierOrder[j] : j \in 1..4} : Configured(t) => t \in Attempted)

\* C3 amended: for a requirement text that is not blank, "none" (confidence 0,
\* the static not-found message) is returned exactly when every configured
\* tier was attempted and produced nothing; a blank text returns "none" with
\* confidence 0 and the empty-requirement message and attempts no tier.
C3_NoneAfterExhaustionOrBlank ==
    matcher = "BAM" /\ Returned =>
        /\ Blank => result = BAM_empty /\ trace = <<>>
        /\ ~Blank =>
              (result.match_type = "none" <=>
                  /\ produced = {}
                  /\ \A t \in {TierOrder[j] : j \in 1..4} : Configured(t) => t \in Attempted)
        /\ ~Blank /\ result.match_type = "none" =>
              EQ(result.confidence, Zero) /\ result.answer = "not_found"

C3_Witness ==
    /\ matcher = "BAM" /\ Returned /\ ~Blank
    /\ result = BAM_none
    /\ trace = <<"exact", "semantic", "web", "generate">>

\* C4: the confidence of every returned result obeys the contract of its
\* match type and lies in [0, 1].
C4_ConfidenceContract ==
    Returned =>
        LET c == result.confidence IN
        /\ GE(c, Zero) /\ GE(One, c)
        /\ result.match_type = "exact" => GE(c, Frac(6, 10)) /\ GE(One, c)
        /\ result.match_type = "semantic" => GE(c, Frac(5, 10)) /\ GE(One, c)
        /\ result.match_type = "web" => EQ(c, Frac(4, 10)) \/ EQ(c, Frac(5, 10))
        /\ result.match_type = "llm_generated" => EQ(c, Frac(3, 10))
        /\ result.match_type = "none" => EQ(c, Zero)

\* C5: the exact tier accepts its best candidate iff the similarity is at
\* least 0.60, reports the similarity (capped at 1) as confidence and labels
\* the result "exact" iff the similarity is at least 0.90, else "semantic".
C5_ExactTierThresholds ==
    "exact" \in Attempted /\ pc # "raised" =>
        /\ "exact" \in produced <=> GE(best_similarity, Frac(60, 100))
        /\ Returned /\ "exact" \in produced =>
              /\ EQ(result.confidence, FMin(best_similarity, One))
              /\ result.match_type =
                    IF GE(best_similarity, Frac(90, 100)) THEN "exact" ELSE "semantic"

\* C6: the generative tier yields llm_generated only for a non-empty
\* completion; an empty completion gives the outcome "none".
C6_GenerativeNeedsText ==
    Returned /\ result.match_type = "llm_generated" =>
        result.answer # "" /\ EQ(result.confidence, Frac(3, 10))

\* C7: a requirement equal to the title of a stored, completed chapter in
\* scope is answered with match_type exact and confidence 1.
C7_TitleMatchIsExact ==
    /\ Returned
    /\ raised = {}
    /\ \E k \in Kinds : /\ kb_chapters[k] > 0
                        /\ InScope(k, knowledge_doc_ids)
                        /\ k.title = requirement_text
    => result.match_type = "exact" /\ EQ(result.confidence, One)


(***************************************************************************)
(* The batch drivers BidAnswerGenerator.answer_requirements and            *)
(* RequirementAnalyzer.analyze_requirements_batch.  A requirement is       *)
(* identified by its content; an entry of results records the requirement  *)
(* it was built from and whether it is a match result or an error record.  *)
(***************************************************************************)
ReqItems == {"r1", "r2"}
MaxReqs == 3
ReqLists == UNION {[1..n -> ReqItems] : n \in 0..MaxReqs}

BatchIdle ==
    /\ driver = "none"
    /\ requirements = <<>>
    /\ progress_callback = FALSE
    /\ results = <<>>
    /\ b_i = 1
    /\ b_pc = "idle"

MatchIdle ==
    /\ matcher = "BAM"
    /\ llm_service = FALSE
    /\ web_search_service = FALSE
    /\ kb_chapters = [k \in Kinds |-> 0]
    /\ requirement_text = <<>>
    /\ knowledge_doc_ids = {}
    /\ enable_web_search = TRUE
    /\ pc = "idle"
    /\ trace = <<>>
    /\ produced = {}
    /\ raised = {}
    /\ best_similarity = Zero
    /\ result = NoResult

\* entry of answer_requirements (lines 1623-1626)
answer_requirements ==
    /\ b_pc = "idle"
    /\ \E reqs \in ReqLists, cb \in BOOLEAN :
          /\ requirements' = reqs
          /\ progress_callback' = cb
    /\ driver' = "answer_requirements"
    /\ results' = <<>>
    /\ b_i' = 1
    /\ b_pc' = "loop"
    /\ UNCHANGED outsideBatch

\* entry of analyze_requirements_batch (lines 1179-1180)
analyze_requirements_batch ==
    /\ b_pc = "idle"
    /\ \E reqs \in ReqLists, cb \in BOOLEAN :
          /\ requirements' = reqs
          /\ progress_callback' = cb
    /\ driver' = "analyze_requirements_batch"
    /\ results' = <<>>
    /\ b_i' = 1
    /\ b_pc' = "loop"
    /\ UNCHANGED outsideBatch

\* the record appended for a requirement
Entry(req, i, type) == [requirement |-> req, index |-> i, match_type |-> type]

\* one pass through the loop body (lines 1628-1677, 1182-1201): the list of
\* results after it.  matching: match_requirement / analyze_requirement
\* returns or raises; callback: progress_callback returns or raises.
batch_iteration(matching, callback) ==
    LET i == b_i
        req == requirements[i]
    IN IF matching = "raise"
       THEN Append(results, Entry(req, i, "error"))
       ELSE LET appended == Append(results, Entry(req, i, "matched"))
            IN IF progress_callback /\ callback = "raise"
               THEN Append(appended, Entry(req, i, "error"))
               ELSE appended

\* one iteration of the loop of answer_requirements
answer_requirements_loop ==
    /\ driver = "answer_requirements"
    /\ b_pc = "loop"
    /\ b_i \in 1..Len(requirements)
    /\ \E matching \in {"return", "raise"}, callback \in {"return", "raise"} :
          results' = batch_iteration(matching, callback)
    /\ b_i' = b_i + 1
    /\ UNCHANGED <<driver, requirements, progress_callback, b_pc, outsideBatch>>

\* one iteration of the loop of analyze_requirements_batch
analyze_requirements_batch_loop ==
    /\ driver = "analyze_requirements_batch"
    /\ b_pc = "loop"
    /\ b_i \in 1..Len(requirements)
    /\ \E matching \in {"return", "raise"}, callback \in {"return", "raise"} :
          results' = batch_iteration(matching, callback)
    /\ b_i' = b_i + 1
    /\ UNCHANGED <<driver, requirements, progress_callback, b_pc, outsideBatch>>

\* return results (lines 1679, 1203)
batch_return ==
    /\ b_pc = "loop"
    /\ b_i = Len(requirements) + 1
    /\ b_pc' = "done"
    /\ UNCHANGED <<driver, requirements, progress_callback, results, b_i, outsideBatch>>

BatchNext ==
    \/ answer_requirements
    \/ analyze_requirements_batch
    \/ answer_requirements_loop
    \/ analyze_requirements_batch_loop
    \/ batch_return

(***************************************************************************)
(* The processing job: process_document submits process_document_task,     *)
(* recover_orphaned_tasks submits it again for a record that stays in      *)
(* status processing.  Every SQL statement is one atomic step (autocommit),*)
(* so the steps of concurrent invocations interleave.  Identifier 0 stands *)
(* for NULL / None, temp id -1 for the None key of temp_to_real_id.        *)
(***************************************************************************)
MaxInvocations == 2
MaxFaults == 1
Invocations == 1..MaxInvocations

Order(n) == <<"ORDER", n>>
Id(n) == <<"ID", n>>

\* results of WordParser.parse: the chapter list starts with the default
\* chapter (temp_id 0, level 1), images are numbered from 1
ParsedDocs ==
    { [chapters |-> << [temp_id |-> 0, level |-> 1, parent_temp_id |-> -1, content |-> <<>>],
                       [temp_id |-> 1, level |-> 1, parent_temp_id |-> -1,
                        content |-> <<Order(1)>>],
                       [temp_id |-> 2, level |-> 2, parent_temp_id |-> 1, content |-> <<>>] >>,
       images |-> << [order_in_doc |-> 1, chapter_temp_id |-> 1, position_in_chapter |-> 0] >>],
      [chapters |-> << [temp_id |-> 0, level |-> 1, parent_temp_id |-> -1,
                        content |-> <<Order(1), Order(2)>>] >>,
       images |-> << [order_in_doc |-> 1, chapter_temp_id |-> 0, position_in_chapter |-> 0],
                     [order_in_doc |-> 2, chapter_temp_id |-> 0, position_in_chapter |-> 1] >>] }

TempIds == -1..2
Orders == 1..2

Fresh == [pc |-> "unused", i |-> 1,
          temp_to_real_id |-> [t \in TempIds |-> 0],
          order_to_image_id |-> [o \in Orders |-> 0],
          order_index |-> 0, image_id |-> 0, target_chapter_id |-> 0, status |-> ""]

JobInit ==
    /\ chapters = {}
    /\ document_images = {}
    /\ chapter_images = {}
    /\ doc_status = "pending"
    /\ next_chapter_id = 1
    /\ next_image_id = 1
    /\ parsed \in ParsedDocs
    /\ inv = [w \in Invocations |-> Fresh]
    /\ started = 0
    /\ faults = 0

JobIdle ==
    /\ chapters = {}
    /\ document_images = {}
    /\ chapter_images = {}
    /\ doc_status = "pending"
    /\ next_chapter_id = 1
    /\ next_image_id = 1
    /\ parsed = [chapters |-> <<>>, images |-> <<>>]
    /\ inv = [w \in Invocations |-> Fresh]
    /\ started = 0
    /\ faults = 0

JobFrame == UNCHANGED outsideJob

\* celery.send_task: one more invocation, waiting to run
Submit == /\ started < MaxInvocations
          /\ started' = started + 1
          /\ inv' = [inv EXCEPT ![started + 1] = [Fresh EXCEPT !.pc = "parse"]]

\* process_document (lines 252-343), asynchronous branch
process_document ==
    /\ doc_status # "processing"
    /\ Submit
    /\ IF chapters # {}
       THEN /\ chapter_images' = {ci \in chapter_images :
                                     ci.chapter_id \notin {c.id : c \in chapters}}
            /\ document_images' = {}
            /\ chapters' = {}
       ELSE UNCHANGED <<chapters, document_images, chapter_images>>
    /\ doc_status' = "processing"
    /\ UNCHANGED <<next_chapter_id, next_image_id, parsed, faults>>
    /\ JobFrame

\* recover_orphaned_tasks (lines 24-102) for a record found processing past
\* the timeout: file missing, task submitted again, or submission failed
recover_orphaned_tasks ==
    /\ doc_status = "processing"
    /\ \E outcome \in {"missing", "resubmit", "send_failed"} :
         CASE outcome = "missing" ->
                doc_status' = "failed" /\ UNCHANGED <<inv, started>>
           [] outcome = "resubmit" ->
                Submit /\ doc_status' = "processing"
           [] outcome = "send_failed" ->
                doc_status' = "pending" /\ UNCHANGED <<inv, started>>
    /\ UNCHANGED <<chapters, document_images, chapter_images, next_chapter_id,
                   next_image_id, parsed, faults>>
    /\ JobFrame

Goto(w, to) == inv' = [inv EXCEPT ![w].pc = to]

\* parser.parse(doc_id), lines 800-801
task_parse(w) ==
    /\ inv[w].pc = "parse"
    /\ \/ Goto(w, "del_chapters") /\ UNCHANGED faults
       \/ faults < MaxFaults /\ faults' = faults + 1 /\ Goto(w, "fail")
    /\ UNCHANGED <<chapters, document_images, chapter_images, doc_status, next_chapter_id,
                   next_image_id, parsed, started>>
    /\ JobFrame

\* line 804: DELETE FROM chapters WHERE document_id = %s
task_delete_chapters(w) ==
    /\ inv[w].pc = "del_chapters"
    /\ chapters' = {}
    /\ Goto(w, "del_images")
    /\ UNCHANGED <<document_images, chapter_images, doc_status, next_chapter_id,
                   next_image_id, parsed, started, faults>>
    /\ JobFrame

\* line 805: DELETE FROM document_images WHERE document_id = %s
task_delete_images(w) ==
    /\ inv[w].pc = "del_images"
    /\ document_images' = {}
    /\ Goto(w, "del_chapter_images")
    /\ UNCHANGED <<chapters, chapter_images, doc_status, next_chapter_id,
                   next_image_id, parsed, started, faults>>
    /\ JobFrame

\* lines 806-813: DELETE ci FROM chapter_images ci INNER JOIN chapters c ...
task_delete_chapter_images(w) ==
    /\ inv[w].pc = "del_chapter_images"
    /\ chapter_images' = {ci \in chapter_images :
                             ci.chapter_id \notin {c.id : c \in chapters}}
    /\ inv' = [inv EXCEPT ![w].pc = "count", ![w].i = 1]
    /\ UNCHANGED <<chapters, document_images, doc_status, next_chapter_id,
                   next_image_id, parsed, started, faults>>
    /\ JobFrame

\* lines 817-824: SELECT COUNT(*) ... WHERE document_id = %s AND parent_id <=> %s;
\* query_sql returns [] when the statement failed, and order_index is then 0
task_count_siblings(w) ==
    /\ inv[w].pc = "count"
    /\ LET c == parsed.chapters[inv[w].i]
           parent_db_id == inv[w].temp_to_real_id[c.parent_temp_id]
           count == Cardinality({r \in chapters : r.parent_id = parent_db_id})
       IN \/ /\ inv' = [inv EXCEPT ![w].pc = "insert", ![w].order_index = count]
             /\ UNCHANGED faults
          \/ /\ faults < MaxFaults
             /\ faults' = faults + 1
             /\ inv' = [inv EXCEPT ![w].pc = "insert", ![w].order_index = 0]
    /\ UNCHANGED <<chapters, document_images, chapter_images, doc_status, next_chapter_id,
                   next_image_id, parsed, started>>
    /\ JobFrame

\* IMAGE_ORDER placeholders rewritten with the identifiers known so far
\* (lines 907-912)
Rewrite(content, order_to_image_id) ==
    [j \in 1..Len(content) |->
        IF content[j][1] = "ORDER" /\ order_to_image_id[content[j][2]] # 0
        THEN Id(order_to_image_id[content[j][2]])
        ELSE content[j]]

\* the chapters from index i on whose content the post-pass updates
\* (lines 899-913)
ToBackfill(st, i) ==
    {j \in i..Len(parsed.chapters) :
        LET c == parsed.chapters[j] IN
        /\ st.temp_to_real_id[c.temp_id] # 0
        /\ \E t \in 1..Len(c.content) : c.content[t][1] = "ORDER"
        /\ Rewrite(c.content, st.order_to_image_id) # c.content}

\* position after the image loop or after one content update
EnterBackfill(st, i) ==
    IF ToBackfill(st, i) = {} THEN [st EXCEPT !.pc = "finish"]
    ELSE [st EXCEPT !.pc = "backfill",
                    !.i = CHOOSE j \in ToBackfill(st, i) : \A o \in ToBackfill(st, i) : j <= o]

\* position after the chapter loop
EnterImages(st) ==
    IF parsed.images = <<>> THEN EnterBackfill(st, 1)
    ELSE [st EXCEPT !.pc = "img", !.i = 1]

\* lines 826-838: INSERT INTO chapters, dml_sql_with_insert_id returns the new
\* id, or None when the statement failed
task_insert_chapter(w) ==
    /\ inv[w].pc = "insert"
    /\ LET c == parsed.chapters[inv[w].i]
           parent_db_id == inv[w].temp_to_real_id[c.parent_temp_id]
           after(new_id) ==
               LET st == [inv[w] EXCEPT !.temp_to_real_id[c.temp_id] = new_id]
               IN IF inv[w].i < Len(parsed.chapters)
                  THEN [st EXCEPT !.pc = "count", !.i = inv[w].i + 1]
                  ELSE EnterImages(st)
       IN \/ /\ chapters' = chapters \cup
                    {[id |-> next_chapter_id, parent_id |-> parent_db_id, level |-> c.level,
                      order_index |-> inv[w].order_index, temp_id |-> c.temp_id,
                      content |-> c.content]}
             /\ next_chapter_id' = next_chapter_id + 1
             /\ inv' = [inv EXCEPT ![w] = after(next_chapter_id)]
             /\ UNCHANGED faults
          \/ /\ faults < MaxFaults
             /\ faults' = faults + 1
             /\ inv' = [inv EXCEPT ![w] = after(0)]
             /\ UNCHANGED <<chapters, next_chapter_id>>
    /\ UNCHANGED <<document_images, chapter_images, doc_status, next_image_id, parsed,
                   started>>
    /\ JobFrame

\* position after the body of the image loop for image i
NextImage(st) ==
    IF st.i < Len(parsed.images) THEN [st EXCEPT !.pc = "img", !.i = st.i + 1]
    ELSE EnterBackfill(st, 1)

\* lines 850-888: INSERT INTO document_images and the choice of the chapter
task_insert_image(w) ==
    /\ inv[w].pc = "img"
    /\ LET img == parsed.images[inv[w].i]
           after(image_id) ==
               LET own == inv[w].temp_to_real_id[img.chapter_temp_id]
                   target == IF own = 0
                             THEN inv[w].temp_to_real_id[parsed.chapters[1].temp_id]
                             ELSE own
                   st == [inv[w] EXCEPT
                            !.order_to_image_id[img.order_in_doc] =
                                IF image_id # 0 THEN image_id ELSE @,
                            !.image_id = image_id,
                            !.target_chapter_id = target]
               IN IF target # 0 /\ image_id # 0 THEN [st EXCEPT !.pc = "ci"]
                  ELSE NextImage(st)
       IN \/ /\ document_images' = document_images \cup
                    {[id |-> next_image_id, order_in_doc |-> img.order_in_doc]}
             /\ next_image_id' = next_image_id + 1
             /\ inv' = [inv EXCEPT ![w] = after(next_image_id)]
             /\ UNCHANGED faults
          \/ /\ faults < MaxFaults
             /\ faults' = faults + 1
             /\ inv' = [inv EXCEPT ![w] = after(0)]
             /\ UNCHANGED <<document_images, next_image_id>>
    /\ UNCHANGED <<chapters, chapter_images, doc_status, next_chapter_id, parsed, started>>
    /\ JobFrame

\* lines 888-896: INSERT INTO chapter_images
task_insert_chapter_image(w) ==
    /\ inv[w].pc = "ci"
    /\ chapter_images' = chapter_images \cup
           {[chapter_id |-> inv[w].target_chapter_id, image_id |-> inv[w].image_id,
             position_in_chapter |-> parsed.images[inv[w].i].position_in_chapter]}
    /\ inv' = [inv EXCEPT ![w] = NextImage(inv[w])]
    /\ UNCHANGED <<chapters, document_images, doc_status, next_chapter_id, next_image_id,
                   parsed, started, faults>>
    /\ JobFrame

\* lines 913-917: UPDATE chapters SET content=%s WHERE id=%s
task_backfill(w) ==
    /\ inv[w].pc = "backfill"
    /\ LET c == parsed.chapters[inv[w].i]
           chapter_db_id == inv[w].temp_to_real_id[c.temp_id]
           new_content == Rewrite(c.content, inv[w].order_to_image_id)
       IN chapters' = {IF r.id = chapter_db_id THEN [r EXCEPT !.content = new_content]
                       ELSE r : r \in chapters}
    /\ inv' = [inv EXCEPT ![w] = EnterBackfill(inv[w], inv[w].i + 1)]
    /\ UNCHANGED <<document_images, chapter_images, doc_status, next_chapter_id,
                   next_image_id, parsed, started, faults>>
    /\ JobFrame

\* lines 919-951: status completed
task_finish(w) ==
    /\ inv[w].pc = "finish"
    /\ doc_status' = "completed"
    /\ inv' = [inv EXCEPT ![w].pc = "done", ![w].status = "success"]
    /\ UNCHANGED <<chapters, document_images, chapter_images, next_chapter_id,
                   next_image_id, parsed, started, faults>>
    /\ JobFrame

\* lines 926-928, 952-970: status failed
task_fail(w) ==
    /\ inv[w].pc = "fail"
    /\ doc_status' = "failed"
    /\ inv' = [inv EXCEPT ![w].pc = "done", ![w].status = "error"]
    /\ UNCHANGED <<chapters, document_images, chapter_images, next_chapter_id,
                   next_image_id, parsed, started, faults>>
    /\ JobFrame

\* the worker process running the invocation dies or hangs for good
worker_stall(w) ==
    /\ inv[w].pc \notin {"unused", "done", "stalled"}
    /\ Goto(w, "stalled")
    /\ UNCHANGED <<chapters, document_images, chapter_images, doc_status, next_chapter_id,
                   next_image_id, parsed, started, faults>>
    /\ JobFrame

JobNext ==
    \/ process_document
    \/ recover_orphaned_tasks
    \/ \E w \in Invocations : task_parse(w)
    \/ \E w \in Invocations : task_delete_chapters(w)
    \/ \E w \in Invocations : task_delete_images(w)
    \/ \E w \in Invocations : task_delete_chapter_images(w)
    \/ \E w \in Invocations : task_count_siblings(w)
    \/ \E w \in Invocations : task_insert_chapter(w)
    \/ \E w \in Invocations : task_insert_image(w)
    \/ \E w \in Invocations : task_insert_chapter_image(w)
    \/ \E w \in Invocations : task_backfill(w)
    \/ \E w \in Invocations : task_finish(w)
    \/ \E w \in Invocations : task_fail(w)
    \/ \E w \in Invocations : worker_stall(w)

(***************************************************************************)
(* BidDocumentParser.  A paragraph is its text form, the section number    *)
(* its text starts with, its style name and its w:outlineLvl value (-1     *)
(* when absent).  A section number is the sequence of its dot-separated    *)
(* segments; the empty sequence stands for None.  The Chinese numeral of   *)
(* value k is the segment 100 + k.                                         *)
(***************************************************************************)
MaxParas == 3
MaxParses == 2
MaxSlots == 10

None == <<>>
Chinese(k) == 100 + k

\* the segment k written with a leading zero ("01"), and the empty segment
\* that follows a trailing dot ("1.2." splits into "1", "2", "")
Padded(k) == 1000 + k
EmptySegment == -1

Para(form, num, style, lvl) ==
    [form |-> form, num |-> num, style_name |-> style, outlineLvl |-> lvl]

Paras ==
    { Para("plain", None, "Heading 1", -1),
      Para("plain", None, "Heading 2", -1),
      Para("plain", None, "Heading 3", -1),
      Para("plain", None, "TOC Heading", -1),
      Para("plain", None, "Normal", 1),
      Para("plain", None, "Normal", -1),
      Para("list", None, "Normal", -1),
      Para("list", None, "Normal", 1),
      Para("plain", None, "Normal", 9),
      Para("empty", None, "Heading 1", -1),
      Para("dotted", <<1, 1>>, "Normal", -1),
      Para("dotted", <<1, 2>>, "Heading 2", -1),
      Para("chinese", <<Chinese(1)>>, "Normal", 1),
      Para("chapter", <<1>>, "Normal", -1) }

RECURSIVE SeqsUpTo(_, _)
SeqsUpTo(S, n) ==
    IF n = 0 THEN {<<>>}
    ELSE LET shorter == SeqsUpTo(S, n - 1)
         IN shorter \cup {Append(q, x) : q \in shorter, x \in S}

NoDoc == <<>>
Docs == SeqsUpTo(Paras, MaxParas) \ {NoDoc}

ZeroCounters == [k \in 1..MaxSlots |-> 0]

\* _get_heading_level_from_style, lines 256-280 (0 for None)
_get_heading_level_from_style(style_name) ==
    CASE style_name = "Heading 1" -> 1
      [] style_name = "Heading 2" -> 2
      [] style_name = "Heading 3" -> 3
      [] OTHER -> 0

\* _get_paragraph_outline_level, lines 282-299 (0 for None)
_get_paragraph_outline_level(para) ==
    IF para.outlineLvl # -1 THEN para.outlineLvl + 1
    ELSE CASE para.style_name = "Heading 1" -> 1
           [] para.style_name = "Heading 2" -> 2
           [] para.style_name = "Heading 3" -> 3
           [] para.style_name = "TOC Heading" -> 1
           [] OTHER -> 0

\* _get_parent_number, lines 301-306
_get_parent_number(section_number) ==
    IF Len(section_number) > 1
    THEN SubSeq(section_number, 1, Len(section_number) - 1)
    ELSE None

NoSection == [number |-> None, level |-> 0]

\* lines 226-229: the counter of the level advances, the deeper ones are zeroed
CountHeading_mut(counters, heading_level) ==
    [k \in 1..MaxSlots |->
        IF k = heading_level THEN counters[k] + 1 ELSE counters[k]]

CountHeading(counters, heading_level) ==
    [k \in 1..MaxSlots |->
        IF k = heading_level THEN counters[k] + 1
        ELSE IF k > heading_level THEN 0 ELSE counters[k]]

\* line 232: the non-zero counters of the first heading_level slots
RECURSIVE NumberParts(_, _)
NumberParts(counters, n) ==
    IF n = 0 THEN <<>>
    ELSE IF counters[n] > 0 THEN Append(NumberParts(counters, n - 1), counters[n])
         ELSE NumberParts(counters, n - 1)

\* _parse_section_title, lines 179-254: the section the paragraph opens (or
\* NoSection) and the counters afterwards
_parse_section_title(para, counters) ==
    LET outline_level == _get_paragraph_outline_level(para)
        styled == _get_heading_level_from_style(para.style_name)
        heading_level == IF styled = 0 /\ outline_level # 0 THEN outline_level ELSE styled
    IN CASE para.form = "dotted" ->
              [section_info |-> [number |-> para.num, level |-> Len(para.num)],
               heading_counters |-> counters]
         [] para.form = "chapter" ->
              [section_info |-> [number |-> para.num, level |-> 1],
               heading_counters |-> counters]
         [] para.form = "chinese" ->
              [section_info |-> [number |-> para.num,
                                 level |-> IF outline_level # 0 THEN outline_level ELSE 1],
               heading_counters |-> counters]
         [] OTHER ->
              IF heading_level # 0 /\ heading_level <= 9
              THEN LET counted == CountHeading(counters, heading_level)
                   IN [section_info |-> [number |-> NumberParts(counted, heading_level),
                                         level |-> heading_level],
                       heading_counters |-> counted]
              ELSE IF outline_level # 0 /\ para.form = "dotted"
              THEN [section_info |-> [number |-> para.num, level |-> outline_level],
                    heading_counters |-> counters]
              ELSE [section_info |-> NoSection, heading_counters |-> counters]

Put(f, k, v) == [x \in DOMAIN f \cup {k} |-> IF x = k THEN v ELSE f[x]]

\* a table of the body as _parse_table (lines 343-384) reports it: its type
\* and the number of its data rows
BTable(type, rows) == [form |-> "table", type |-> type, rows |-> rows]

NoItem == [type |-> "none", text |-> <<>>, section |-> None]

\* _parse_requirement_item, lines 308-340: a numbered or bulleted line
_parse_requirement_item(para, i) ==
    IF para.form = "list" THEN [type |-> "list", text |-> <<i>>, section |-> None]
    ELSE NoItem

\* _extract_requirements_from_table, lines 394-522: one requirement for every
\* data row with a requirement or a specification text
_extract_requirements_from_table(table_data) ==
    [r \in 1..table_data.rows |->
        [type |-> "table", text |-> <<table_data.i>>, section |-> None]]

Members(q) == {q[k] : k \in 1..Len(q)}

NoSections == [n \in {} |-> NoSection]

\* the loop of parse_document_structure from block i on, lines 102-157; the
\* position of a paragraph stands for its text
RECURSIVE ParseBlocks(_, _, _)
ParseBlocks(blocks, i, st) ==
    IF i > Len(blocks)
    THEN IF st.current_section # None
         THEN [st EXCEPT !.sections[st.current_section].content = st.current_content]
         ELSE st
    ELSE IF blocks[i].form = "empty" THEN ParseBlocks(blocks, i + 1, st)
    ELSE IF blocks[i].form = "table"
    THEN IF st.current_section # None
         THEN LET table_data == [type |-> blocks[i].type, rows |-> blocks[i].rows, i |-> i]
                  table_reqs == IF table_data.type = "requirement_table"
                                THEN _extract_requirements_from_table(table_data)
                                ELSE <<>>
              IN ParseBlocks(blocks, i + 1,
                             [st EXCEPT !.sections[st.current_section].tables =
                                            Append(@, table_data),
                                        !.sections[st.current_section].requirements =
                                            @ \o table_reqs])
         ELSE ParseBlocks(blocks, i + 1, st)
    ELSE LET title == _parse_section_title(blocks[i], st.heading_counters)
             section_info == title.section_info
             numbered == IF title.heading_counters # st.heading_counters
                         THEN Append(st.numbered,
                                     [level |-> section_info.level,
                                      number |-> section_info.number,
                                      heading_counters |-> title.heading_counters])
                         ELSE st.numbered
             titles == Append(st.titles,
                              [para |-> blocks[i], section_info |-> section_info,
                               before |-> st.heading_counters,
                               after |-> title.heading_counters])
         IN IF section_info # NoSection
            THEN LET section_number == section_info.number
                     saved == IF st.current_section # None
                              THEN [st.sections EXCEPT
                                       ![st.current_section].content = st.current_content]
                              ELSE st.sections
                     parent_num == _get_parent_number(section_number)
                     created == Put(saved, section_number,
                                    [number |-> section_number, title |-> i,
                                     level |-> section_info.level, content |-> <<>>,
                                     requirements |-> <<>>, tables |-> <<>>,
                                     parent_number |-> parent_num, children |-> <<>>,
                                     raw_title |-> i,
                                     slot |-> IF section_number \in DOMAIN saved
                                              THEN saved[section_number].slot
                                              ELSE Cardinality(DOMAIN saved) + 1])
                     linked == IF /\ parent_num # None
                                  /\ parent_num \in DOMAIN created
                                  /\ section_number \notin Members(created[parent_num].children)
                               THEN [created EXCEPT ![parent_num].children =
                                                        Append(@, section_number)]
                               ELSE created
                 IN ParseBlocks(blocks, i + 1,
                                [heading_counters |-> title.heading_counters,
                                 numbered |-> numbered,
                                 titles |-> titles,
                                 sections |-> linked,
                                 current_section |-> section_number,
                                 current_content |-> IF st.current_section # None THEN <<>>
                                                     ELSE st.current_content])
            ELSE ParseBlocks(blocks, i + 1,
                             [st EXCEPT !.heading_counters = title.heading_counters,
                                        !.titles = titles,
                                        !.sections =
                                            IF /\ st.current_section # None
                                               /\ _parse_requirement_item(blocks[i], i) # NoItem
                                            THEN [@ EXCEPT ![st.current_section].requirements =
                                                      Append(@, _parse_requirement_item(blocks[i], i))]
                                            ELSE @,
                                        !.current_content =
                                            IF st.current_section # None THEN Append(@, i)
                                            ELSE @])

\* a call of a lookup method: the number asked for, the keys of the index it
\* searched, the key of the section it found (None: none) and that section,
\* and the requirements it returned
NoAnswer == [op |-> "none", request |-> None, keys |-> {}, key |-> None,
             section |-> NoSection, requirements |-> <<>>]

\* BidDocumentParser(), lines 47-62, for some file on disk
ParseInit ==
    /\ file \in Docs
    /\ doc = NoDoc
    /\ heading_counters = ZeroCounters
    /\ section_index = NoSections
    /\ parse_log = <<>>
    /\ auto_numbered = <<>>
    /\ title_log = <<>>
    /\ answer = NoAnswer

ParseIdle ==
    /\ file = NoDoc
    /\ doc = NoDoc
    /\ heading_counters = ZeroCounters
    /\ section_index = NoSections
    /\ parse_log = <<>>
    /\ auto_numbered = <<>>
    /\ title_log = <<>>
    /\ answer = NoAnswer

\* load_document, lines 64-70
load_document ==
    /\ doc' = file
    /\ section_index' = NoSections
    /\ heading_counters' = ZeroCounters
    /\ parse_log' = <<>>
    /\ auto_numbered' = <<>>
    /\ title_log' = <<>>
    /\ UNCHANGED <<file, answer>>
    /\ UNCHANGED outsideParse

\* the body of parse_document_structure, lines 96-162
Parsed ==
    ParseBlocks(doc, 1, [heading_counters |-> heading_counters,
                         numbered |-> <<>>,
                         titles |-> <<>>,
                         sections |-> NoSections,
                         current_section |-> None,
                         current_content |-> <<>>])

StoreParsed ==
    LET structure == Parsed
    IN /\ heading_counters' = structure.heading_counters
       /\ section_index' = structure.sections
       /\ parse_log' = Append(parse_log, structure.sections)
       /\ auto_numbered' = structure.numbered
       /\ title_log' = structure.titles

\* parse_document_structure, lines 72-162 (raises ValueError without a document)
parse_document_structure ==
    /\ doc # NoDoc
    /\ Len(parse_log) < MaxParses
    /\ StoreParsed
    /\ UNCHANGED <<file, doc, answer>>
    /\ UNCHANGED outsideParse

\* _normalize_section_number, lines 546-556: int() drops the leading zeros of
\* a segment; a segment int() rejects is kept as it is
_normalize_section_number(number) ==
    [k \in 1..Len(number) |->
        IF number[k] >= Padded(0) THEN number[k] - Padded(0) ELSE number[k]]

\* lines 534-544: the exact key, else the first key of the same normal form
Resolve(index, section_number) ==
    IF section_number \in DOMAIN index THEN section_number
    ELSE LET same == {key \in DOMAIN index :
                        _normalize_section_number(key) =
                            _normalize_section_number(section_number)}
         IN IF same = {} THEN None
            ELSE CHOOSE key \in same : \A o \in same : index[key].slot <= index[o].slot

\* the section numbers callers ask for: "1", "1.2", "01.2", "1.02", "1.2.",
\* "2.1"
Requests ==
    { <<1>>, <<1, 2>>, <<Padded(1), 2>>, <<1, Padded(2)>>, <<1, 2, EmptySegment>>,
      <<2, 1>> }

\* lines 531-532: an empty index is parsed first
IndexForLookup == IF DOMAIN section_index = {} THEN Parsed.sections ELSE section_index

ParseForLookup ==
    IF DOMAIN section_index = {}
    THEN /\ doc # NoDoc
         /\ Len(parse_log) < MaxParses
         /\ StoreParsed
    ELSE UNCHANGED <<heading_counters, section_index, parse_log, auto_numbered,
                     title_log>>

\* get_section_by_number, lines 524-544
get_section_by_number ==
    /\ LET index == IndexForLookup
       IN \E section_number \in Requests :
             LET key == Resolve(index, section_number)
             IN answer' = [op |-> "get_section_by_number", request |-> section_number,
                           keys |-> DOMAIN index, key |-> key,
                           section |-> IF key = None THEN NoSection ELSE index[key],
                           requirements |-> <<>>]
    /\ ParseForLookup
    /\ UNCHANGED <<file, doc>>
    /\ UNCHANGED outsideParse

Tag(reqs, section_number) ==
    [k \in 1..Len(reqs) |-> [reqs[k] EXCEPT !.section = section_number]]

\* the loop of _parse_requirements_from_content over the lines, lines
\* 687-737; acc is [requirements, current_text]
RECURSIVE NumberedItems(_, _, _, _)
NumberedItems(blocks, content, k, acc) ==
    LET flushed == IF acc.current_text # <<>>
                   THEN Append(acc.requirements,
                               [type |-> "list", text |-> acc.current_text, section |-> None])
                   ELSE acc.requirements
    IN IF k > Len(content) THEN flushed
       ELSE IF blocks[content[k]].form \in {"list", "bullet"}
            THEN NumberedItems(blocks, content, k + 1,
                               [requirements |-> flushed, current_text |-> <<content[k]>>])
            ELSE NumberedItems(blocks, content, k + 1,
                               [acc EXCEPT !.current_text =
                                               IF @ # <<>> THEN Append(@, content[k]) ELSE @])

\* _parse_requirements_from_content, lines 656-766: without numbered lines
\* every line of 10 characters or more is a requirement, an introductory
\* first line left out
_parse_requirements_from_content(blocks, content) ==
    LET numbered == NumberedItems(blocks, content, 1,
                                  [requirements |-> <<>>, current_text |-> <<>>])
        start_idx == IF content # <<>> /\ blocks[content[1]].form = "intro" THEN 1 ELSE 0
        lines == SubSeq(content, start_idx + 1, Len(content))
        long == SelectSeq(lines, LAMBDA i : blocks[i].form # "short")
    IN IF content = <<>> THEN <<>>
       ELSE IF numbered # <<>> THEN numbered
       ELSE [k \in 1..Len(long) |->
                [type |-> "paragraph", text |-> <<long[k]>>, section |-> None]]

\* lines 619-626: the requirements of all tables of the section
RECURSIVE TableRequirements(_, _)
TableRequirements(tables, k) ==
    IF k > Len(tables) THEN <<>>
    ELSE _extract_requirements_from_table(tables[k]) \o TableRequirements(tables, k + 1)

\* lines 629-652: the whole content, else the title, as one requirement; a
\* marker when the section has neither (0 stands for an empty text)
WholeSection_mut(section, section_number) ==
    <<>>

WholeSection(section, section_number) ==
    LET content == IF section.content # <<>> THEN section.content
                   ELSE IF section.raw_title # 0 THEN <<section.raw_title>>
                   ELSE IF section.title # 0 THEN <<section.title>>
                   ELSE <<>>
    IN IF content # <<>>
       THEN << [type |-> "content", text |-> content, section |-> section_number] >>
       ELSE << [type |-> "empty", text |-> <<>>, section |-> section_number] >>

\* lines 593-655 of get_all_requirements_from_section, for a section found
RequirementsOf(blocks, section, section_number) ==
    LET captured == Tag(section.requirements, section_number)
        from_content == IF captured # <<>> THEN captured
                        ELSE Tag(_parse_requirements_from_content(blocks, section.content),
                                 section_number)
        from_tables == IF from_content # <<>> THEN from_content
                       ELSE Tag(TableRequirements(section.tables, 1), section_number)
    IN IF from_tables # <<>> THEN from_tables
       ELSE WholeSection(section, section_number)

\* get_all_requirements_from_section, lines 572-655
get_all_requirements_from_section ==
    /\ LET index == IndexForLookup
       IN \E section_number \in Requests :
             LET key == Resolve(index, section_number)
             IN answer' = [op |-> "get_all_requirements_from_section",
                           request |-> section_number,
                           keys |-> DOMAIN index, key |-> key,
                           section |-> IF key = None THEN NoSection ELSE index[key],
                           requirements |->
                               IF key = None THEN <<>>
                               ELSE RequirementsOf(doc, index[key], section_number)]
    /\ ParseForLookup
    /\ UNCHANGED <<file, doc>>
    /\ UNCHANGED outsideParse

\* the documents the lookups are checked on
LookupParas ==
    { Para("plain", None, "Heading 1", -1),
      Para("dotted", <<1, 2>>, "Normal", -1),
      Para("dotted", <<Padded(1), 2>>, "Normal", -1),
      Para("plain", None, "Normal", -1),
      Para("list", None, "Normal", -1),
      Para("short", None, "Normal", -1),
      Para("intro", None, "Normal", -1),
      Para("bullet", None, "Normal", -1),
      BTable("requirement_table", 1),
      BTable("data_table", 1) }

MaxLookupParas == 2

LookupDocs == SeqsUpTo(LookupParas, MaxLookupParas) \ {NoDoc}

LookupInit ==
    /\ file \in LookupDocs
    /\ doc = NoDoc
    /\ heading_counters = ZeroCounters
    /\ section_index = NoSections
    /\ parse_log = <<>>
    /\ auto_numbered = <<>>
    /\ title_log = <<>>
    /\ answer = NoAnswer

LookupNext ==
    \/ load_document
    \/ parse_document_structure
    \/ get_section_by_number
    \/ get_all_requirements_from_section

ParseNext ==
    \/ load_document
    \/ parse_document_structure

(***************************************************************************)
(* WordParser.  A block of the document body is a paragraph (w:outlineLvl  *)
(* value or -1, style name, runs) or a table (the cells that row.cells     *)
(* yields, row by row).  A run is the sequence of its XML children: "t"    *)
(* text, "lit" text that spells {{IMAGE_ORDER_1}}, "br", "sym" (a child    *)
(* the loop of _parse_run_children has no branch for, but run.text         *)
(* renders), "img" a drawing whose relationship has an image part, "miss"  *)
(* a drawing whose relationship has none.  Text is a sequence of tokens.   *)
(***************************************************************************)
MaxBlocks == 3
MaxWordParses == 2

NoLevel == -1
NoTempId == -1

Text == <<"TEXT", 0>>
Newline == <<"NL", 0>>
Space == <<"SP", 0>>
TableOpen == <<"TABLE", 0>>
TableClose == <<"TABLE", 1>>
Bar == <<"BAR", 0>>

WPara(lvl, style, runs) ==
    [kind |-> "p", outlineLvl |-> lvl, style_name |-> style, runs |-> runs]
WTable(rows) == [kind |-> "tbl", rows |-> rows]

\* a cell is the sequence of its paragraphs, a paragraph that of its runs; a
\* merged cell is yielded once for every grid column it spans
ImageCell == << << <<"img">> >> >>
TextCell == << << <<"t", "br", "t">> >>, << <<"sym">> >> >>

Blocks ==
    { WPara(-1, "Heading 1", << <<"t">> >>),
      WPara(-1, "Heading 2", << <<"t", "img">> >>),
      WPara(-1, "Heading 0", << <<"t">> >>),
      WPara(2, "Normal", << <<"t">> >>),
      WPara(-1, "Title", << <<"img">> >>),
      WPara(-1, "Normal", << <<"t", "img", "br">> >>),
      WPara(-1, "Normal", << <<"img", "img">>, <<"miss", "sym">> >>),
      WPara(-1, "Normal", << <<"sym">>, <<"miss">> >>),
      WPara(-1, "Normal", << <<"lit">> >>),
      WTable(<< <<ImageCell, ImageCell>>, <<TextCell>> >>) }

NoBody == <<>>
Bodies == SeqsUpTo(Blocks, MaxBlocks) \ {NoBody}

\* the first group of digits of a style name, lines 76-78 (NoLevel: no digits)
StyleDigits(style_name) ==
    CASE style_name = "Heading 0" -> 0
      [] style_name = "Heading 1" -> 1
      [] style_name = "Heading 2" -> 2
      [] style_name = "Heading 3" -> 3
      [] OTHER -> NoLevel

\* WordParser._get_paragraph_outline_level, lines 64-79
WP_get_paragraph_outline_level(para) ==
    IF para.outlineLvl # -1 THEN para.outlineLvl + 1
    ELSE IF para.style_name \in {"Heading 0", "Heading 1", "Heading 2", "Heading 3", "Title"}
         THEN IF StyleDigits(para.style_name) # NoLevel
              THEN StyleDigits(para.style_name) ELSE 1
         ELSE NoLevel

\* the text python-docx reports for a run child (run.text), <<>> for none
ChildText(child) ==
    CASE child = "t" -> <<Text>>
      [] child = "lit" -> <<Order(1)>>
      [] child = "br" -> <<Newline>>
      [] child = "sym" -> <<Text>>
      [] OTHER -> <<>>

RECURSIVE RunText(_, _)
RunText(run, k) ==
    IF k > Len(run) THEN <<>> ELSE ChildText(run[k]) \o RunText(run, k + 1)

\* _extract_plain_text_from_paragraph, lines 57-62
RECURSIVE _extract_plain_text_from_paragraph(_, _)
_extract_plain_text_from_paragraph(runs, k) ==
    IF k > Len(runs) THEN <<>>
    ELSE RunText(runs[k], 1) \o _extract_plain_text_from_paragraph(runs, k + 1)

IsSpace(tok) == tok \in {Newline, Space}

\* str.strip on token text
RECURSIVE TokLStrip(_)
TokLStrip(s) ==
    IF s # <<>> /\ IsSpace(Head(s)) THEN TokLStrip(Tail(s)) ELSE s

RECURSIVE TokRStrip(_)
TokRStrip(s) ==
    IF s # <<>> /\ IsSpace(s[Len(s)]) THEN TokRStrip(SubSeq(s, 1, Len(s) - 1)) ELSE s

TokStrip(s) == TokLStrip(TokRStrip(s))

\* re.sub(r"\s+", " ", s), line 232
RECURSIVE CollapseSpace(_)
CollapseSpace(s) ==
    IF s = <<>> THEN <<>>
    ELSE IF IsSpace(Head(s))
         THEN <<Space>> \o CollapseSpace(TokLStrip(s))
         ELSE <<Head(s)>> \o CollapseSpace(Tail(s))

\* "sep".join(parts)
RECURSIVE Join(_, _)
Join(sep, parts) ==
    IF parts = <<>> THEN <<>>
    ELSE IF Len(parts) = 1 THEN parts[1]
    ELSE parts[1] \o sep \o Join(sep, Tail(parts))

\* _save_image_by_rid, lines 133-158, and lines 186-197 of
\* _parse_run_children: the image is numbered, attached to the chapter and
\* appended; s is [images, counter, img_pos, out]
SaveImage(s, ctx) ==
    [s EXCEPT !.images = Append(@, [order_in_doc |-> s.counter,
                                    chapter_temp_id |-> ctx.temp_id,
                                    position_in_chapter |-> s.img_pos,
                                    paragraph_index |-> ctx.block_index]),
              !.counter = @ + 1,
              !.img_pos = @ + 1,
              !.out = Append(@, Order(s.counter))]

\* the loop of _parse_run_children, lines 164-198
RECURSIVE RunChildren(_, _, _, _)
RunChildren(run, k, s, ctx) ==
    IF k > Len(run) THEN s
    ELSE LET child == run[k]
             next == CASE child \in {"t", "lit"} -> [s EXCEPT !.out = @ \o ChildText(child)]
                       [] child = "br" -> [s EXCEPT !.out = Append(@, Newline)]
                       [] child = "img" -> SaveImage(s, ctx)
                       [] OTHER -> s
         IN RunChildren(run, k + 1, next, ctx)

\* _parse_run_children, lines 160-204; the fragments of the run are appended
\* to s.text
_parse_run_children(run, s, ctx) ==
    LET end == RunChildren(run, 1, [s EXCEPT !.out = <<>>], ctx)
        out == IF end.out = <<>> /\ RunText(run, 1) # <<>> THEN RunText(run, 1)
               ELSE end.out
    IN [end EXCEPT !.text = @ \o out]

RECURSIVE ParseRuns(_, _, _, _)
ParseRuns(runs, k, s, ctx) ==
    IF k > Len(runs) THEN s
    ELSE ParseRuns(runs, k + 1, _parse_run_children(runs[k], s, ctx), ctx)

\* _parse_paragraph_inline, lines 206-210; the result is left in s.text
_parse_paragraph_inline(runs, s, ctx) ==
    LET end == ParseRuns(runs, 1, [s EXCEPT !.text = <<>>], ctx)
    IN [end EXCEPT !.text = TokStrip(@)]

\* _parse_cell, lines 212-221: a cell is the sequence of its paragraphs
RECURSIVE CellParts(_, _, _, _, _)
CellParts(cell, k, s, ctx, parts) ==
    IF k > Len(cell) THEN [s EXCEPT !.text = TokStrip(Join(<<Newline>>, parts))]
    ELSE LET p == _parse_paragraph_inline(cell[k], s, ctx)
         IN CellParts(cell, k + 1, p, ctx,
                      IF p.text # <<>> THEN Append(parts, p.text) ELSE parts)

_parse_cell(cell, s, ctx) == CellParts(cell, 1, s, ctx, <<>>)

\* the cells of one row, lines 228-233
RECURSIVE RowCells(_, _, _, _, _)
RowCells(row, k, s, ctx, row_cells) ==
    IF k > Len(row) THEN [s EXCEPT !.text = <<Bar>> \o Join(<<Bar>>, row_cells) \o <<Bar>>]
    ELSE LET c == _parse_cell(row[k], s, ctx)
         IN RowCells(row, k + 1, c, ctx,
                     Append(row_cells, TokStrip(CollapseSpace(c.text))))

\* _parse_table, lines 223-238
RECURSIVE TableRows(_, _, _, _, _)
TableRows(rows, k, s, ctx, lines) ==
    IF k > Len(rows)
    THEN [s EXCEPT !.text = Join(<<Newline>>, Append(lines, <<TableClose>>))]
    ELSE LET r == RowCells(rows[k], 1, s, ctx, <<>>)
         IN TableRows(rows, k + 1, r, ctx, Append(lines, r.text))

_parse_table(table, s, ctx) == TableRows(table.rows, 1, s, ctx, << <<TableOpen>> >>)

\* lines 246-257: the chapter that holds the text before the first heading
NewChapter(temp_id, level, parent_temp_id) ==
    [temp_id |-> temp_id, level |-> level, parent_temp_id |-> parent_temp_id,
     content_list |-> <<>>, _img_pos |-> 0, content |-> <<>>]

Sentinel == [level |-> 0, temp_id |-> NoTempId]

\* lines 275-276: the entries of level >= level are popped
RECURSIVE PopTo_mut(_, _)
PopTo_mut(stack, level) ==
    IF stack # <<>> /\ stack[Len(stack)].level > level
    THEN PopTo_mut(SubSeq(stack, 1, Len(stack) - 1), level)
    ELSE stack

RECURSIVE PopTo(_, _)
PopTo(stack, level) ==
    IF stack # <<>> /\ stack[Len(stack)].level >= level
    THEN PopTo(SubSeq(stack, 1, Len(stack) - 1), level)
    ELSE stack

\* line 277: the parent is the entry on top after popping
ParentOf_mut(popped) ==
    IF temp_id_counter > 0 THEN temp_id_counter ELSE NoTempId

ParentOf(popped) ==
    IF popped # <<>> THEN popped[Len(popped)].temp_id ELSE NoTempId

\* WordParser(), lines 27-43, for some file on disk
WordInit ==
    /\ docx \in Bodies
    /\ wp_chapters = <<>>
    /\ images = <<>>
    /\ _img_order_counter = 1
    /\ temp_id_counter = 0
    /\ block_index = 0
    /\ current_chapter = 0
    /\ parent_stack = <<>>
    /\ wp_pc = "idle"
    /\ parse_returns = <<>>

WordIdle ==
    /\ docx = NoBody
    /\ wp_chapters = <<>>
    /\ images = <<>>
    /\ _img_order_counter = 1
    /\ temp_id_counter = 0
    /\ block_index = 0
    /\ current_chapter = 0
    /\ parent_stack = <<>>
    /\ wp_pc = "idle"
    /\ parse_returns = <<>>

\* parse, lines 240-259: up to the loop over the blocks
parse ==
    /\ wp_pc = "idle"
    /\ Len(parse_returns) < MaxWordParses
    /\ temp_id_counter' = 0
    /\ block_index' = 0
    /\ wp_chapters' = <<NewChapter(0, 1, NoTempId)>>
    /\ current_chapter' = 1
    /\ parent_stack' = <<Sentinel>>
    /\ wp_pc' = "blocks"
    /\ UNCHANGED <<docx, images, _img_order_counter, parse_returns>>
    /\ UNCHANGED outsideWord

\* lines 264-296: a paragraph with an outline level and a title opens a chapter
parse_heading ==
    /\ wp_pc = "blocks"
    /\ block_index < Len(docx)
    /\ LET block == docx[block_index + 1]
       IN /\ block.kind = "p"
          /\ LET level == WP_get_paragraph_outline_level(block)
                 title_text == TokStrip(_extract_plain_text_from_paragraph(block.runs, 1))
             IN /\ level # NoLevel /\ title_text # <<>>
                /\ LET popped == PopTo(parent_stack, level)
                       parent_temp_id == ParentOf(popped)
                   IN /\ temp_id_counter' = temp_id_counter + 1
                      /\ wp_chapters' = Append(wp_chapters,
                                               NewChapter(temp_id_counter + 1, level,
                                                          parent_temp_id))
                      /\ current_chapter' = Len(wp_chapters) + 1
                      /\ parent_stack' = Append(popped, [level |-> level,
                                                        temp_id |-> temp_id_counter + 1])
    /\ block_index' = block_index + 1
    /\ UNCHANGED <<docx, images, _img_order_counter, wp_pc, parse_returns>>
    /\ UNCHANGED outsideWord

\* what the parsing of a block's text leaves in the parser and the chapter
Absorb(end) ==
    /\ images' = end.images
    /\ _img_order_counter' = end.counter
    /\ wp_chapters' = [wp_chapters EXCEPT
                          ![current_chapter]._img_pos = end.img_pos,
                          ![current_chapter].content_list =
                              IF end.text # <<>> THEN Append(@, end.text) ELSE @]

ParseState ==
    [images |-> images, counter |-> _img_order_counter,
     img_pos |-> wp_chapters[current_chapter]._img_pos, out |-> <<>>, text |-> <<>>]

ParseContext ==
    [temp_id |-> wp_chapters[current_chapter].temp_id, block_index |-> block_index]

\* lines 298-303: any other paragraph is text of the current chapter
parse_paragraph ==
    /\ wp_pc = "blocks"
    /\ block_index < Len(docx)
    /\ LET block == docx[block_index + 1]
       IN /\ block.kind = "p"
          /\ ~ ( /\ WP_get_paragraph_outline_level(block) # NoLevel
                 /\ TokStrip(_extract_plain_text_from_paragraph(block.runs, 1)) # <<>> )
          /\ Absorb(_parse_paragraph_inline(block.runs, ParseState, ParseContext))
    /\ block_index' = block_index + 1
    /\ UNCHANGED <<docx, temp_id_counter, current_chapter, parent_stack, wp_pc,
                   parse_returns>>
    /\ UNCHANGED outsideWord

\* lines 305-311: a table is text of the current chapter
parse_table ==
    /\ wp_pc = "blocks"
    /\ block_index < Len(docx)
    /\ LET block == docx[block_index + 1]
       IN /\ block.kind = "tbl"
          /\ Absorb(_parse_table(block, ParseState, ParseContext))
    /\ block_index' = block_index + 1
    /\ UNCHANGED <<docx, temp_id_counter, current_chapter, parent_stack, wp_pc,
                   parse_returns>>
    /\ UNCHANGED outsideWord

\* lines 313-316: the contents are joined and the lists are returned
parse_return ==
    /\ wp_pc = "blocks"
    /\ block_index = Len(docx)
    /\ wp_chapters' = [k \in DOMAIN wp_chapters |->
                          [wp_chapters[k] EXCEPT
                              !.content = TokStrip(Join(<<Newline>>,
                                                      wp_chapters[k].content_list))]]
    /\ parse_returns' = Append(parse_returns,
                               [chapters |-> wp_chapters', images |-> images])
    /\ wp_pc' = "idle"
    /\ UNCHANGED <<docx, images, _img_order_counter, temp_id_counter, block_index,
                   current_chapter, parent_stack>>
    /\ UNCHANGED outsideWord

WordNext ==
    \/ parse
    \/ parse_heading
    \/ parse_paragraph
    \/ parse_table
    \/ parse_return


(***************************************************************************)
(* UserInstructionParser.  An instruction is a sequence of tokens: a       *)
(* dotted number ("1.2", "01.2", "2.1"), a bare integer ("3"), a comma, a  *)
(* space, the words 针对, 回答 and 作答, and any other word.  Two numeric  *)
(* tokens are never adjacent, since their digits would read as one number. *)
(***************************************************************************)
MaxTokens == 3

Token(kind, num) == [kind |-> kind, num |-> num]

Tokens ==
    { Token("num", <<1, 2>>), Token("num", <<Padded(1), 2>>), Token("num", <<2, 1>>),
      Token("digit", <<3>>), Token("comma", None), Token("space", None),
      Token("for", None), Token("answer", None), Token("reply", None),
      Token("word", None) }

Numeric(tok) == tok.kind \in {"num", "digit"}

Instructions ==
    {q \in SeqsUpTo(Tokens, MaxTokens) :
        \A k \in 1..(Len(q) - 1) : ~(Numeric(q[k]) /\ Numeric(q[k + 1]))}

\* the character class [0-9\.,、和与\s] of the patterns, lines 773-781
InClass(tok) == tok.kind \in {"num", "digit", "comma", "space"}

\* the last position of the run of class tokens that starts at k (k - 1 when
\* there is none)
RECURSIVE RunEnd(_, _)
RunEnd(text, k) ==
    IF k <= Len(text) /\ InClass(text[k]) THEN RunEnd(text, k + 1) ELSE k - 1

\* the first position of the run of class tokens that ends at k
RECURSIVE RunStart(_, _)
RunStart(text, k) ==
    IF k > 1 /\ InClass(text[k - 1]) THEN RunStart(text, k - 1) ELSE k

NoMatch == [matched |-> FALSE, group |-> <<>>]
Group(text, from, to) == [matched |-> TRUE, group |-> SubSeq(text, from, to)]

First(S) == CHOOSE k \in S : \A o \in S : k <= o

\* line 773: 针对 ... ([0-9\.,、\s]+)作答
Pattern1(text) ==
    LET fors == {k \in 1..Len(text) : text[k].kind = "for"}
        replies(z) == {q \in (z + 2)..Len(text) :
                          text[q].kind = "reply" /\ InClass(text[q - 1])}
    IN IF fors = {} \/ replies(First(fors)) = {} THEN NoMatch
       ELSE LET q == First(replies(First(fors)))
            IN Group(text, RunStart(text, q - 1), q - 1)

\* lines 775 and 781: 回答\s*([0-9\.,、和与\s]+), 章节\s*([0-9\.,、和与\s]+)
AfterKeyword(text, keyword) ==
    LET at == {k \in 1..(Len(text) - 1) : text[k].kind = keyword /\ InClass(text[k + 1])}
    IN IF at = {} THEN NoMatch
       ELSE Group(text, First(at) + 1, RunEnd(text, First(at) + 1))

\* line 777: 对\s*([0-9\.,、和与\s]+)\s*(?:进行)?(?:作答|回复|回答)
Pattern3(text) ==
    LET at == {k \in 1..(Len(text) - 2) :
                  /\ text[k].kind = "for"
                  /\ InClass(text[k + 1])
                  /\ RunEnd(text, k + 1) < Len(text)
                  /\ text[RunEnd(text, k + 1) + 1].kind \in {"reply", "answer"}}
    IN IF at = {} THEN NoMatch
       ELSE Group(text, First(at) + 1, RunEnd(text, First(at) + 1))

RECURSIVE SkipSpaces(_, _)
SkipSpaces(text, k) ==
    IF k <= Len(text) /\ text[k].kind = "space" THEN SkipSpaces(text, k + 1) ELSE k

\* the end of the list of dotted numbers whose last number so far is at e
RECURSIVE ListEnd(_, _)
ListEnd(text, e) ==
    LET c == SkipSpaces(text, e + 1)
        n == SkipSpaces(text, c + 1)
    IN IF /\ c <= Len(text) /\ text[c].kind = "comma"
          /\ n <= Len(text) /\ text[n].kind = "num"
       THEN ListEnd(text, n)
       ELSE e

\* line 779: the first dotted number and the dotted numbers listed after it
Pattern4(text) ==
    LET at == {k \in 1..Len(text) : text[k].kind = "num"}
    IN IF at = {} THEN NoMatch ELSE Group(text, First(at), ListEnd(text, First(at)))

\* INSTRUCTION_PATTERNS, lines 771-782, in order
Patterns(text) ==
    << Pattern1(text), AfterKeyword(text, "answer"), Pattern3(text), Pattern4(text),
       AfterKeyword(text, "chapter") >>

\* _normalize_number, lines 862-874: the matches of the extraction pattern
\* have no trailing dot; int() drops the leading zeros of every part
_normalize_number_mut(number) ==
    number

_normalize_number(number) ==
    [k \in 1..Len(number) |->
        IF number[k] >= Padded(0) THEN number[k] - Padded(0) ELSE number[k]]

\* lines 851-858: the normalized numbers not seen before, in order
RECURSIVE Unique(_, _, _)
Unique(matches, k, unique_numbers) ==
    IF k > Len(matches) THEN unique_numbers
    ELSE LET normalized == _normalize_number(matches[k].num)
         IN Unique(matches, k + 1,
                   IF normalized \in Members(unique_numbers) THEN unique_numbers
                   ELSE Append(unique_numbers, normalized))

\* _extract_section_numbers, lines 837-860: re.findall of \d+(?:\.\d+)+
_extract_section_numbers(text) ==
    Unique(SelectSeq(text, LAMBDA tok : tok.kind = "num"), 1, <<>>)

NoParse == [action |-> "unparsed", section_numbers |-> <<>>, parsed |-> FALSE,
            scanned |-> <<>>]

\* lines 816-825: the first pattern that matches and yields numbers, from k on
RECURSIVE TryPatterns(_, _)
TryPatterns(text, k) ==
    IF k > Len(Patterns(text)) THEN NoParse
    ELSE LET match == Patterns(text)[k]
             section_numbers == _extract_section_numbers(match.group)
         IN IF match.matched /\ section_numbers # <<>>
            THEN [action |-> "answer_sections", section_numbers |-> section_numbers,
                  parsed |-> TRUE, scanned |-> match.group]
            ELSE TryPatterns(text, k + 1)

InstrInit ==
    /\ instruction \in Instructions
    /\ parse_result = NoParse

InstrIdle ==
    /\ instruction = <<>>
    /\ parse_result = NoParse

\* parse_instruction, lines 787-835; scanned is the text the numbers were
\* extracted from
parse_instruction ==
    /\ parse_result.action = "unparsed"
    /\ LET by_pattern == TryPatterns(instruction, 1)
           section_numbers == _extract_section_numbers(instruction)
       IN parse_result' =
              IF by_pattern.parsed THEN by_pattern
              ELSE IF section_numbers # <<>>
                   THEN [action |-> "answer_sections", section_numbers |-> section_numbers,
                         parsed |-> TRUE, scanned |-> instruction]
                   ELSE [action |-> "none", section_numbers |-> <<>>, parsed |-> FALSE,
                         scanned |-> instruction]
    /\ UNCHANGED instruction
    /\ UNCHANGED outsideInstr

InstrNext == parse_instruction

(***************************************************************************)
(* BidAnswerGenerator.export_to_word and export_to_word_table_format: the  *)
(* grouping of the results by section number and the order of the groups.  *)
(* A section number is the sequence of its segments, the empty string the  *)
(* empty sequence; a result may lack the key section_number.  A text is    *)
(* the sequence of its code points.                                        *)
(***************************************************************************)
MaxExported == 3

\* the segment 其他 of the default section number, lines 1734 and 1847
Qita == 200

ExportNumbers ==
    { <<1>>, <<2>>, <<1, 2>>, <<1, 10>>, <<Padded(1), 2>>, <<Chinese(1)>>, None }

\* a result with the key section_number and a result without it
ExportResults ==
    {[section_number |-> x] : x \in ExportNumbers} \cup {[requirement |-> None]}

\* x.split('.'): the empty string splits into one empty segment
Split(x) == IF x = None THEN <<EmptySegment>> ELSE x

\* p.isdigit(): a segment of digits, with or without a leading zero
isdigit(p) == p \in 0..99 \/ p >= 1000

\* int(p) drops the leading zero
int(p) == IF p >= 1000 THEN p - 1000 ELSE p

\* the code points of 一二三四五六七八九十
ChineseCodePoints ==
    <<19968, 20108, 19977, 22235, 20116, 20845, 19971, 20843, 20061, 21313>>

\* the decimal digits of a number below 100, as code points
Digits(k) == IF k < 10 THEN <<48 + k>> ELSE <<48 + (k \div 10), 48 + (k % 10)>>

\* the text of a segment
CodePoints(p) ==
    IF p = EmptySegment THEN <<>>
    ELSE IF p = Qita THEN <<20854, 20182>>
    ELSE IF p >= 1000 THEN <<48>> \o Digits(p - 1000)
    ELSE IF p >= 100 THEN <<ChineseCodePoints[p - 100]>>
    ELSE Digits(p)

\* r.get('section_number', '其他')
SectionNum(r) ==
    IF "section_number" \in DOMAIN r THEN r.section_number ELSE <<Qita>>

\* the keys of grouped_results in insertion order, lines 1732-1740
RECURSIVE GroupKeys(_, _, _)
GroupKeys(rs, k, keys) ==
    IF k > Len(rs) THEN keys
    ELSE GroupKeys(rs, k + 1,
                   IF SectionNum(rs[k]) \in Members(keys) THEN keys
                   ELSE Append(keys, SectionNum(rs[k])))

\* the sort key of line 1744: int(p) if p.isdigit() else p
SortKey(x) ==
    [k \in 1..Len(Split(x)) |->
        IF isdigit(Split(x)[k]) THEN [int |-> int(Split(x)[k])]
        ELSE [str |-> CodePoints(Split(x)[k])]]

\* the first position at which two sequences differ, 0 if one is a prefix
\* of the other
RECURSIVE FirstDiff(_, _, _)
FirstDiff(a, b, k) ==
    IF k > Len(a) \/ k > Len(b) THEN 0
    ELSE IF a[k] # b[k] THEN k
    ELSE FirstDiff(a, b, k + 1)

\* comparison of two sequences of integers
SeqCompare(a, b) ==
    LET d == FirstDiff(a, b, 1)
    IN IF d = 0
       THEN IF Len(a) < Len(b) THEN "lt" ELSE IF Len(a) > Len(b) THEN "gt" ELSE "eq"
       ELSE IF a[d] < b[d] THEN "lt" ELSE "gt"

\* Python's comparison of two key lists: the first differing elements
\* decide, and an int against a str raises TypeError
KeyCompare(a, b) ==
    LET d == FirstDiff(a, b, 1)
    IN IF d = 0
       THEN IF Len(a) < Len(b) THEN "lt" ELSE IF Len(a) > Len(b) THEN "gt" ELSE "eq"
       ELSE IF "int" \in DOMAIN a[d] /\ "int" \in DOMAIN b[d]
            THEN IF a[d].int < b[d].int THEN "lt" ELSE "gt"
       ELSE IF "str" \in DOMAIN a[d] /\ "str" \in DOMAIN b[d]
            THEN SeqCompare(a[d].str, b[d].str)
       ELSE "TypeError"

\* some comparison of the sort raises.  Two keys that cannot be compared
\* differ first in an int against a str; every third key is a prefix of
\* both, differs from both before that position, or cannot be compared with
\* one of them, so it never sorts between the two and the sort compares them
Incomparable(keys) ==
    \E i, j \in 1..Len(keys) :
        KeyCompare(SortKey(keys[i]), SortKey(keys[j])) = "TypeError"

\* sorted(): stable insertion of x behind the elements that are not greater
RECURSIVE Insert(_, _, _)
Insert(sorted, x, k) ==
    IF k > Len(sorted) THEN Append(sorted, x)
    ELSE IF KeyCompare(SortKey(x), SortKey(sorted[k])) = "lt"
         THEN SubSeq(sorted, 1, k - 1) \o <<x>> \o SubSeq(sorted, k, Len(sorted))
         ELSE Insert(sorted, x, k + 1)

RECURSIVE Sorted(_, _, _)
Sorted(keys, k, sorted) ==
    IF k > Len(keys) THEN sorted
    ELSE Sorted(keys, k + 1, Insert(sorted, keys[k], 1))

NoExport == [op |-> "none", raised |-> FALSE, sections |-> <<>>]

\* lines 1731-1746 and 1844-1858: sections is the sequence of the headings
\* added to the document
Export(op) ==
    LET keys == GroupKeys(export_results, 1, <<>>)
    IN IF Incomparable(keys)
       THEN [op |-> op, raised |-> TRUE, sections |-> <<>>]
       ELSE [op |-> op, raised |-> FALSE, sections |-> Sorted(keys, 1, <<>>)]

ExportInit ==
    /\ export_results \in SeqsUpTo(ExportResults, MaxExported)
    /\ exported = NoExport

ExportIdle ==
    /\ export_results = <<>>
    /\ exported = NoExport

export_to_word ==
    /\ exported.op = "none"
    /\ exported' = Export("export_to_word")
    /\ UNCHANGED export_results
    /\ UNCHANGED outsideExport

export_to_word_table_format ==
    /\ exported.op = "none"
    /\ exported' = Export("export_to_word_table_format")
    /\ UNCHANGED export_results
    /\ UNCHANGED outsideExport

ExportNext ==
    \/ export_to_word
    \/ export_to_word_table_format

(***************************************************************************)
(* The status of one document record under concurrent process_document     *)
(* requests, the Celery worker and recover_orphaned_tasks.  Every SQL      *)
(* statement and every send_task is one atomic step.  The task itself is   *)
(* reduced to its writes of chapters and of the record status.             *)
(***************************************************************************)
MaxRequests == 2
MaxTasks == 1
MaxLost == 1

RequestIds == DOMAIN pd_req

NoRequest == [pc |-> "start", response |-> "none", result |-> "none"]

\* the messages for the document are all alike: tasks counts those waiting
\* in the queue and those run up to their last statement, by result
TaskStates == {"queued", "success", "error"}
NoTasks == [k \in TaskStates |-> 0]
Waiting == tasks["queued"] + tasks["success"] + tasks["error"]

StatusInit ==
    /\ record_status \in {"pending", "completed", "failed"}
    /\ timed_out = FALSE
    /\ has_chapters = (record_status = "completed")
    /\ pd_req = [r \in 1..MaxRequests |-> NoRequest]
    /\ tasks = NoTasks
    /\ rc = "idle"
    /\ lost = 0
    /\ finished = FALSE

\* one request, for the runs under fairness
MaxFairRequests == 1

StatusFairInit ==
    /\ record_status \in {"pending", "completed", "failed"}
    /\ timed_out = FALSE
    /\ has_chapters = (record_status = "completed")
    /\ pd_req = [r \in 1..MaxFairRequests |-> NoRequest]
    /\ tasks = NoTasks
    /\ rc = "idle"
    /\ lost = 0
    /\ finished = FALSE

StatusIdle ==
    /\ record_status = "pending"
    /\ timed_out = FALSE
    /\ has_chapters = FALSE
    /\ pd_req = [r \in 1..MaxRequests |-> NoRequest]
    /\ tasks = NoTasks
    /\ rc = "idle"
    /\ lost = 0
    /\ finished = FALSE

\* celery.send_task succeeded: one more message for the worker; beyond
\* MaxTasks of them a new one counts as one of those waiting
SendTask ==
    tasks' = IF Waiting < MaxTasks THEN [tasks EXCEPT !["queued"] = @ + 1] ELSE tasks

\* lines 268-282: the record is read and a record in status processing is
\* refused
pd_check_status(r) ==
    /\ pd_req[r].pc = "start"
    /\ pd_req' = [pd_req EXCEPT ![r] = IF record_status = "processing"
                                 THEN [@ EXCEPT !.pc = "done", !.response = "error"]
                                 ELSE [@ EXCEPT !.pc = "count"]]
    /\ UNCHANGED <<record_status, timed_out, has_chapters, tasks, rc, lost, finished>>
    /\ UNCHANGED outsideStatus

\* lines 294-297: SELECT COUNT(*) FROM chapters
pd_count_chapters(r) ==
    /\ pd_req[r].pc = "count"
    /\ pd_req' = [pd_req EXCEPT ![r].pc = IF has_chapters THEN "clean" ELSE "update"]
    /\ UNCHANGED <<record_status, timed_out, has_chapters, tasks, rc, lost, finished>>
    /\ UNCHANGED outsideStatus

\* lines 299-311: the three DELETE statements, the last one on chapters
pd_delete_old_data(r) ==
    /\ pd_req[r].pc = "clean"
    /\ has_chapters' = FALSE
    /\ pd_req' = [pd_req EXCEPT ![r].pc = "update"]
    /\ UNCHANGED <<record_status, timed_out, tasks, rc, lost, finished>>
    /\ UNCHANGED outsideStatus

\* lines 317-322: status processing, process_start_time NOW()
pd_update_status(r) ==
    /\ pd_req[r].pc = "update"
    /\ record_status' = "processing"
    /\ timed_out' = FALSE
    /\ pd_req' = [pd_req EXCEPT ![r].pc = "send"]
    /\ UNCHANGED <<has_chapters, tasks, rc, lost, finished>>
    /\ UNCHANGED outsideStatus

\* lines 325-349: the task is sent, or send_task raises and the request
\* falls back to processing the document itself
pd_send_task(r) ==
    /\ pd_req[r].pc = "send"
    /\ \/ /\ SendTask
          /\ pd_req' = [pd_req EXCEPT ![r] = [@ EXCEPT !.pc = "done", !.response = "submitted"]]
       \/ /\ pd_req' = [pd_req EXCEPT ![r].pc = "sync"]
          /\ UNCHANGED tasks
    /\ UNCHANGED <<record_status, timed_out, has_chapters, rc, lost, finished>>
    /\ UNCHANGED outsideStatus

\* what a run of process_document_task ends with: the result success, the
\* result error (lines 926-928), or an exception (line 1065)
TaskOutcomes == {"success", "error", "raised"}

\* under Celery the exception only marks the message as failed
WorkerOutcomes == {"success", "error"}

\* lines 941-948, 960-967 and 1051-1063: the status a run leaves
TaskStatus_mut(outcome) == IF outcome = "success" THEN "completed" ELSE "processing"

TaskStatus(outcome) == IF outcome = "success" THEN "completed" ELSE "failed"

\* line 358: process_document_task called in the request
pd_sync_task(r) ==
    /\ pd_req[r].pc = "sync"
    /\ \E outcome \in TaskOutcomes :
         /\ has_chapters' = IF outcome = "success" THEN TRUE ELSE has_chapters
         /\ record_status' = TaskStatus(outcome)
         /\ pd_req' = [pd_req EXCEPT ![r] = [@ EXCEPT !.pc = "result", !.result = outcome]]
    /\ finished' = TRUE
    /\ UNCHANGED <<timed_out, tasks, rc, lost>>
    /\ UNCHANGED outsideStatus

\* lines 360-380: a failed result resets the record to pending, an exception
\* marks it failed
pd_sync_result(r) ==
    /\ pd_req[r].pc = "result"
    /\ record_status' = CASE pd_req[r].result = "success" -> record_status
                          [] pd_req[r].result = "error" -> "pending"
                          [] pd_req[r].result = "raised" -> "failed"
    /\ pd_req' = [pd_req EXCEPT ![r] = [pc |-> "done",
                                         response |-> IF pd_req[r].result = "success"
                                                      THEN "success" ELSE "error",
                                         result |-> "none"]]
    /\ UNCHANGED <<timed_out, has_chapters, tasks, rc, lost, finished>>
    /\ UNCHANGED outsideStatus

\* the worker runs the task up to its last statement, lines 782-928
task_run ==
    /\ tasks["queued"] > 0
    /\ \E outcome \in WorkerOutcomes :
         /\ has_chapters' = IF outcome = "success" THEN TRUE ELSE has_chapters
         /\ tasks' = [tasks EXCEPT !["queued"] = @ - 1, ![outcome] = @ + 1]
    /\ UNCHANGED <<record_status, timed_out, pd_req, rc, lost, finished>>
    /\ UNCHANGED outsideStatus

\* the UPDATE of the record that ends the run, lines 930-970 and 1047-1065
task_update_status(outcome) ==
    /\ tasks[outcome] > 0
    /\ record_status' = TaskStatus(outcome)
    /\ tasks' = [tasks EXCEPT ![outcome] = @ - 1]
    /\ finished' = TRUE
    /\ UNCHANGED <<timed_out, has_chapters, pd_req, rc, lost>>
    /\ UNCHANGED outsideStatus

\* the worker dies with the task, or the message expires (expires=3600)
task_lost(k) ==
    /\ tasks[k] > 0
    /\ lost < MaxLost
    /\ lost' = lost + 1
    /\ tasks' = [tasks EXCEPT ![k] = @ - 1]
    /\ UNCHANGED <<record_status, timed_out, has_chapters, pd_req, rc, finished>>
    /\ UNCHANGED outsideStatus

\* TASK_TIMEOUT_MINUTES pass since process_start_time
timeout ==
    /\ record_status = "processing"
    /\ ~timed_out
    /\ timed_out' = TRUE
    /\ UNCHANGED <<record_status, has_chapters, pd_req, tasks, rc, lost, finished>>
    /\ UNCHANGED outsideStatus

\* lines 28-38: the records in status processing past the timeout
rc_select ==
    /\ rc = "idle"
    /\ record_status = "processing" /\ timed_out
    /\ rc' = "found"
    /\ UNCHANGED <<record_status, timed_out, has_chapters, pd_req, tasks, lost, finished>>
    /\ UNCHANGED outsideStatus

\* lines 52-72 and 90-99: the file is missing, the task is sent again, or
\* send_task raises
rc_resubmit ==
    /\ rc = "found"
    /\ \/ /\ record_status' = "failed"
          /\ rc' = "idle"
          /\ UNCHANGED tasks
       \/ /\ SendTask
          /\ rc' = "sent"
          /\ UNCHANGED record_status
       \/ /\ record_status' = "pending"
          /\ rc' = "idle"
          /\ UNCHANGED tasks
    /\ UNCHANGED <<timed_out, has_chapters, pd_req, lost, finished>>
    /\ UNCHANGED outsideStatus

\* lines 74-77: status processing, process_start_time NOW()
rc_refresh ==
    /\ rc = "sent"
    /\ record_status' = "processing"
    /\ timed_out' = FALSE
    /\ rc' = "idle"
    /\ UNCHANGED <<has_chapters, pd_req, tasks, lost, finished>>
    /\ UNCHANGED outsideStatus

RequestStep(r) ==
    \/ pd_check_status(r)
    \/ pd_count_chapters(r)
    \/ pd_delete_old_data(r)
    \/ pd_update_status(r)
    \/ pd_send_task(r)
    \/ pd_sync_task(r)
    \/ pd_sync_result(r)

WorkerStep == task_run \/ \E outcome \in WorkerOutcomes : task_update_status(outcome)

RecoverStep == rc_select \/ rc_resubmit \/ rc_refresh

StatusNext ==
    \/ \E r \in RequestIds : RequestStep(r)
    \/ WorkerStep
    \/ \E k \in TaskStates : task_lost(k)
    \/ timeout
    \/ RecoverStep

(***************************************************************************)
(* The chunked upload of one file: the session kept in Redis and in the    *)
(* table upload_sessions, the chunk files, and concurrent upload_chunk and *)
(* complete_upload requests.  Every read or write of Redis, of the table   *)
(* and of the upload directory is one atomic step.                         *)
(***************************************************************************)
MaxChunks == 2
MaxUploadRequests == 2

\* chunk_index as sent in the form: int() accepts a sign
ChunkInputs == -1..MaxChunks

UploadIds == 1..MaxUploadRequests

NoSession == [total_chunks |-> 0, uploaded_chunks |-> <<>>, status |-> "none"]
NoUpload == [op |-> "none", pc |-> "idle", chunk_index |-> 0,
             session_data |-> NoSession, response |-> "none"]

\* lines 301-313: the session init_upload saved
NewSession(total) ==
    [total_chunks |-> total, uploaded_chunks |-> <<>>, status |-> "initialized"]

UploadInit ==
    /\ redis_available \in BOOLEAN
    /\ \E total \in 1..MaxChunks :
         /\ redis_store = IF redis_available THEN NewSession(total) ELSE NoSession
         /\ db_store = NewSession(total)
    /\ chunk_files = {}
    /\ up_req = [r \in UploadIds |-> NoUpload]
    /\ merge_started = FALSE

UploadIdle ==
    /\ redis_available = FALSE
    /\ redis_store = NoSession
    /\ db_store = NoSession
    /\ chunk_files = {}
    /\ up_req = [r \in UploadIds |-> NoUpload]
    /\ merge_started = FALSE

\* lines 58-98: Redis first, the table when Redis is not available
get_upload_session == IF redis_available THEN redis_store ELSE db_store

\* list.sort() on a list of integers
RECURSIVE SortInts(_)
SortInts(seq) ==
    IF Len(seq) <= 1 THEN seq
    ELSE LET least == CHOOSE i \in 1..Len(seq) :
                         \A j \in 1..Len(seq) :
                            seq[i] < seq[j] \/ (seq[i] = seq[j] /\ i <= j)
         IN <<seq[least]>> \o SortInts(SubSeq(seq, 1, least - 1)
                                        \o SubSeq(seq, least + 1, Len(seq)))

InList(x, seq) == \E i \in 1..Len(seq) : seq[i] = x

\* lines 439-444: the index is appended when it is not in the list
RecordChunk(session_data, chunk_index) ==
    IF InList(chunk_index, session_data.uploaded_chunks)
    THEN session_data
    ELSE [session_data EXCEPT !.uploaded_chunks = SortInts(Append(@, chunk_index)),
                              !.status = "uploading"]

\* lines 409-429: upload_chunk reads the session and validates the index
upload_chunk_get(r) ==
    /\ up_req[r].pc \in {"idle", "done"}
    /\ \E chunk_index \in ChunkInputs :
         LET session_data == get_upload_session
         IN up_req' = [up_req EXCEPT ![r] =
                IF chunk_index >= session_data.total_chunks
                THEN [NoUpload EXCEPT !.op = "upload_chunk", !.pc = "done",
                                      !.chunk_index = chunk_index, !.response = "error"]
                ELSE [op |-> "upload_chunk", pc |-> "file", chunk_index |-> chunk_index,
                      session_data |-> session_data, response |-> "none"]]
    /\ UNCHANGED <<redis_available, redis_store, db_store, chunk_files, merge_started>>
    /\ UNCHANGED outsideUpload

\* lines 431-444: the chunk file is written and the index recorded in the
\* copy of the session
upload_chunk_save_file(r) ==
    /\ up_req[r].pc = "file"
    /\ chunk_files' = chunk_files \cup {up_req[r].chunk_index}
    /\ up_req' = [up_req EXCEPT ![r] =
                    [@ EXCEPT !.pc = "redis",
                              !.session_data = RecordChunk(@, up_req[r].chunk_index)]]
    /\ UNCHANGED <<redis_available, redis_store, db_store, merge_started>>
    /\ UNCHANGED outsideUpload

\* lines 106-118: save_upload_session writes the copy to Redis
save_upload_session_redis(r) ==
    /\ up_req[r].pc = "redis"
    /\ redis_store' = IF redis_available THEN up_req[r].session_data ELSE redis_store
    /\ up_req' = [up_req EXCEPT ![r].pc = "db"]
    /\ UNCHANGED <<redis_available, db_store, chunk_files, merge_started>>
    /\ UNCHANGED outsideUpload

\* lines 120-211: save_upload_session writes the copy to upload_sessions;
\* upload_chunk then returns success, complete_upload goes on
save_upload_session_db(r) ==
    /\ up_req[r].pc = "db"
    /\ db_store' = up_req[r].session_data
    /\ up_req' = [up_req EXCEPT ![r] =
                    IF up_req[r].op = "upload_chunk"
                    THEN [@ EXCEPT !.pc = "done", !.session_data = NoSession,
                                   !.response = "success"]
                    ELSE [@ EXCEPT !.pc = "delay"]]
    /\ UNCHANGED <<redis_available, redis_store, chunk_files, merge_started>>
    /\ UNCHANGED outsideUpload

\* lines 468-494: complete_upload reads the session, compares the length of
\* uploaded_chunks with total_chunks and sets the status merging in its copy
complete_upload_get(r) ==
    /\ up_req[r].pc \in {"idle", "done"}
    /\ LET session_data == get_upload_session
       IN up_req' = [up_req EXCEPT ![r] =
              IF Len(session_data.uploaded_chunks) # session_data.total_chunks
              THEN [NoUpload EXCEPT !.op = "complete_upload", !.pc = "done",
                                    !.response = "error"]
              ELSE [op |-> "complete_upload", pc |-> "redis", chunk_index |-> 0,
                    session_data |-> [session_data EXCEPT !.status = "merging"],
                    response |-> "none"]]
    /\ UNCHANGED <<redis_available, redis_store, db_store, chunk_files, merge_started>>
    /\ UNCHANGED outsideUpload

\* lines 496-506: merge_chunks_task.delay(upload_id)
complete_upload_delay(r) ==
    /\ up_req[r].pc = "delay"
    /\ merge_started' = TRUE
    /\ up_req' = [up_req EXCEPT ![r] =
                    [@ EXCEPT !.pc = "done", !.session_data = NoSession,
                              !.response = "success"]]
    /\ UNCHANGED <<redis_available, redis_store, db_store, chunk_files>>
    /\ UNCHANGED outsideUpload

UploadNext ==
    \E r \in UploadIds :
        \/ upload_chunk_get(r)
        \/ upload_chunk_save_file(r)
        \/ save_upload_session_redis(r)
        \/ save_upload_session_db(r)
        \/ complete_upload_get(r)
        \/ complete_upload_delay(r)

(***************************************************************************)
(* The LLM-scored semantic tier of both matchers on a list of candidates,  *)
(* by position: what the prompt shows and which candidate a reply selects. *)
(***************************************************************************)
NotCalled == -1

SemInit ==
    /\ sem_matcher \in {"BAM", "RA"}
    /\ sem_len \in 1..(IF sem_matcher = "BAM" THEN SemanticLimit ELSE RA_SemanticLimit)
    /\ sem_pick = NotCalled

SemIdle ==
    /\ sem_matcher = "BAM"
    /\ sem_len = 1
    /\ sem_pick = NotCalled

\* line 1302 of _semantic_match: candidate_texts[:20]; lines 949 and 956 of
\* _llm_semantic_match: every candidate
Presented(m, len) == IF m = "BAM" THEN Min(len, PromptCap) ELSE len

\* BidAnswerMatcher._semantic_match on sem_len candidates
BAM_semantic_reply ==
    /\ sem_matcher = "BAM" /\ sem_pick = NotCalled
    /\ \E reply \in ScoreReplies : sem_pick' = BAM_semantic_index(reply, sem_len)
    /\ UNCHANGED <<sem_matcher, sem_len>>
    /\ UNCHANGED outsideSem

\* RequirementAnalyzer._llm_semantic_match on sem_len candidates;
\* _get_chapter_path may raise inside the try block
RA_llm_reply ==
    /\ sem_matcher = "RA" /\ sem_pick = NotCalled
    /\ \E reply \in ScoreReplies, path \in DbOutcomes :
         sem_pick' = IF path = "raise" THEN 0 ELSE RA_llm_index(reply, sem_len)
    /\ UNCHANGED <<sem_matcher, sem_len>>
    /\ UNCHANGED outsideSem

SemNext == BAM_semantic_reply \/ RA_llm_reply

vars == <<matchVars, batchVars, jobVars, parseVars, wordVars,
          instrVars, exportVars, statusVars, uploadVars, semVars>>

\* the matchers alone
Init ==
    /\ MatchInit /\ BatchIdle /\ JobIdle /\ ParseIdle
    /\ WordIdle /\ InstrIdle /\ ExportIdle /\ StatusIdle
    /\ UploadIdle /\ SemIdle
Spec == Init /\ [][MatchNext]_vars

\* the batch drivers alone
InitBatch ==
    /\ MatchIdle /\ BatchIdle /\ JobIdle /\ ParseIdle
    /\ WordIdle /\ InstrIdle /\ ExportIdle /\ StatusIdle
    /\ UploadIdle /\ SemIdle
SpecBatch == InitBatch /\ [][BatchNext]_vars

\* the processing job alone
InitJob ==
    /\ MatchIdle /\ BatchIdle /\ JobInit /\ ParseIdle
    /\ WordIdle /\ InstrIdle /\ ExportIdle /\ StatusIdle
    /\ UploadIdle /\ SemIdle
SpecJob == InitJob /\ [][JobNext]_vars

\* the bid document parser alone
InitParse ==
    /\ MatchIdle /\ BatchIdle /\ JobIdle /\ ParseInit
    /\ WordIdle /\ InstrIdle /\ ExportIdle /\ StatusIdle
    /\ UploadIdle /\ SemIdle
SpecParse == InitParse /\ [][ParseNext]_vars

\* the bid document parser and its lookup methods
InitLookup ==
    /\ MatchIdle /\ BatchIdle /\ JobIdle /\ LookupInit
    /\ WordIdle /\ InstrIdle /\ ExportIdle /\ StatusIdle
    /\ UploadIdle /\ SemIdle
SpecLookup == InitLookup /\ [][LookupNext]_vars

\* the instruction parser alone
InitInstr ==
    /\ MatchIdle /\ BatchIdle /\ JobIdle /\ ParseIdle
    /\ WordIdle /\ InstrInit /\ ExportIdle /\ StatusIdle
    /\ UploadIdle /\ SemIdle
SpecInstr == InitInstr /\ [][InstrNext]_vars

\* the Word parser alone
InitWord ==
    /\ MatchIdle /\ BatchIdle /\ JobIdle /\ ParseIdle
    /\ WordInit /\ InstrIdle /\ ExportIdle /\ StatusIdle
    /\ UploadIdle /\ SemIdle
SpecWord == InitWord /\ [][WordNext]_vars

\* the export of the answers alone
InitExport ==
    /\ MatchIdle /\ BatchIdle /\ JobIdle /\ ParseIdle
    /\ WordIdle /\ InstrIdle /\ ExportInit /\ StatusIdle
    /\ UploadIdle /\ SemIdle
SpecExport == InitExport /\ [][ExportNext]_vars

\* the status of a document record under concurrent requests
InitStatus ==
    /\ MatchIdle /\ BatchIdle /\ JobIdle /\ ParseIdle
    /\ WordIdle /\ InstrIdle /\ ExportIdle /\ StatusInit
    /\ UploadIdle /\ SemIdle
SpecStatus == InitStatus /\ [][StatusNext]_vars

\* the chunked upload of one file under concurrent requests
InitUpload ==
    /\ MatchIdle /\ BatchIdle /\ JobIdle /\ ParseIdle
    /\ WordIdle /\ InstrIdle /\ ExportIdle /\ StatusIdle
    /\ UploadInit /\ SemIdle
SpecUpload == InitUpload /\ [][UploadNext]_vars

\* the same under fairness: the worker runs every task it has not lost, time
\* passes, and recover_orphaned_tasks runs again and again
InitStatusFair ==
    /\ MatchIdle /\ BatchIdle /\ JobIdle /\ ParseIdle
    /\ WordIdle /\ InstrIdle /\ ExportIdle /\ StatusFairInit
    /\ UploadIdle /\ SemIdle
Fairness ==
    /\ WF_vars(WorkerStep)
    /\ WF_vars(timeout)
    /\ WF_vars(RecoverStep)
SpecStatusFair == InitStatusFair /\ [][StatusNext]_vars /\ Fairness

\* the LLM-scored tier of both matchers by candidate position
InitSem ==
    /\ MatchIdle /\ BatchIdle /\ JobIdle /\ ParseIdle
    /\ WordIdle /\ InstrIdle /\ ExportIdle /\ StatusIdle
    /\ UploadIdle /\ SemInit
SpecSem == InitSem /\ [][SemNext]_vars

\* C8: the returned list has the length of the input list and its i-th
\* entry describes the i-th requirement.
C8_ResultsTrackInput ==
    b_pc = "done" =>
        /\ Len(results) = Len(requirements)
        /\ \A i \in 1..Len(results) :
              results[i].requirement = requirements[i] /\ results[i].index = i


\* the invocation submitted last has completed and no other one is running
JobSettled ==
    /\ started > 0
    /\ inv[started].pc = "done" /\ inv[started].status = "success"
    /\ \A w \in 1..started : inv[w].pc \in {"done", "stalled"}
    /\ faults = 0

\* the stored chapters and images are those of one parse
OneParseStored ==
    /\ \A j \in 1..Len(parsed.chapters) :
          Cardinality({r \in chapters : r.temp_id = parsed.chapters[j].temp_id}) = 1
    /\ Cardinality(chapters) = Len(parsed.chapters)
    /\ \A j \in 1..Len(parsed.images) :
          Cardinality({r \in document_images :
                          r.order_in_doc = parsed.images[j].order_in_doc}) = 1
    /\ Cardinality(document_images) = Len(parsed.images)

\* C9: process_document_task is re-entrant: once all invocations for the
\* document have finished, the stored chapters and images are exactly those
\* of one parse.
C9_ReentrantJob == JobSettled => OneParseStored

\* numbers, levels, parents and children order of a returned structure
Shape(sections) ==
    [n \in DOMAIN sections |->
        [level |-> sections[n].level, parent_number |-> sections[n].parent_number,
         children |-> sections[n].children]]

\* C10: a second parse_document_structure on the same instance and document
\* returns the same section numbers with the same levels, parents and
\* children order as the first.
C10_ReparseIdempotent ==
    Len(parse_log) >= 2 => Shape(parse_log[2]) = Shape(parse_log[1])

\* the image orders whose placeholder occurs in a text
Placeholders(text) ==
    {text[k][2] : k \in {j \in 1..Len(text) : text[j][1] = "ORDER"}}

\* the number of placeholders of order n in the contents of a chapter list
RECURSIVE PlaceholderCount(_, _)
PlaceholderCount(chs, n) ==
    IF chs = <<>> THEN 0
    ELSE Len(SelectSeq(Head(chs).content, LAMBDA tok : tok = Order(n)))
         + PlaceholderCount(Tail(chs), n)

\* placeholders and ImageRefs of one returned value correspond one to one,
\* and the orders are 1, 2, 3, ... in the order of the image list
Bijective(ret) ==
    /\ \A j \in 1..Len(ret.images) :
          /\ ret.images[j].order_in_doc = j
          /\ PlaceholderCount(ret.chapters, j) = 1
    /\ \A c \in 1..Len(ret.chapters) :
          Placeholders(ret.chapters[c].content) \subseteq 1..Len(ret.images)

\* C11: in the value returned by every parse call, every placeholder
\* {{IMAGE_ORDER_n}} in chapter content has exactly one ImageRef with
\* order_in_doc = n in the image list, every ImageRef has exactly one
\* placeholder, and the orders are 1, 2, 3, ... in encounter order.
C11_PlaceholdersMatchImages ==
    \A r \in 1..Len(parse_returns) : Bijective(parse_returns[r])

\* C13: the levels on the stack of open ancestors increase strictly from
\* bottom to top after every block; a heading of level L pops exactly the
\* entries of level >= L, pushes its own entry, and takes as parent the
\* entry then on top (null when the stack is empty).
C13_StackStrictlyIncreasing ==
    /\ [](\A k \in 1..(Len(parent_stack) - 1) :
              parent_stack[k].level < parent_stack[k + 1].level)
    /\ [][ (wp_pc = "blocks" /\ temp_id_counter' = temp_id_counter + 1) =>
               LET new == wp_chapters'[Len(wp_chapters')]
                   kept == SelectSeq(parent_stack, LAMBDA e : e.level < new.level)
               IN /\ parent_stack' = Append(kept, [level |-> new.level,
                                                   temp_id |-> new.temp_id])
                  /\ new.parent_temp_id = IF kept = <<>> THEN NoTempId
                                          ELSE kept[Len(kept)].temp_id ]_vars

\* three headings were processed and entries were popped
C13_Witness ==
    /\ temp_id_counter = 3
    /\ Len(parent_stack) = 2
    /\ parent_stack[1] = Sentinel

\* the position in a chapter list of the chapter with a temp_id (0: none)
PositionOf(chs, temp_id) ==
    IF \E k \in 1..Len(chs) : chs[k].temp_id = temp_id
    THEN CHOOSE k \in 1..Len(chs) : chs[k].temp_id = temp_id
    ELSE 0

\* following the parent links from position k reaches null within fuel steps
RECURSIVE ReachesNull(_, _, _)
ReachesNull(chs, k, fuel) ==
    IF chs[k].parent_temp_id = NoTempId THEN TRUE
    ELSE IF fuel = 0 \/ PositionOf(chs, chs[k].parent_temp_id) = 0 THEN FALSE
    ELSE ReachesNull(chs, PositionOf(chs, chs[k].parent_temp_id), fuel - 1)

\* C14: every chapter with a parent has it earlier in the chapter list and
\* at a strictly smaller level, the parent links lead to null without a
\* cycle, and the parent of a chapter never changes once it is created.
C14_ParentsFormForest ==
    /\ [](\A k \in 1..Len(wp_chapters) :
              /\ wp_chapters[k].parent_temp_id # NoTempId =>
                    \E j \in 1..(k - 1) :
                        /\ wp_chapters[j].temp_id = wp_chapters[k].parent_temp_id
                        /\ wp_chapters[j].level < wp_chapters[k].level
              /\ ReachesNull(wp_chapters, k, Len(wp_chapters)))
    /\ [][ wp_pc = "blocks" =>
               \A k \in 1..Len(wp_chapters) :
                   wp_chapters'[k].parent_temp_id = wp_chapters[k].parent_temp_id ]_vars

\* a returned chapter list holds a chapter whose parent has a parent
C14_Witness ==
    \E r \in 1..Len(parse_returns) :
        \E k, j \in 1..Len(parse_returns[r].chapters) :
            /\ parse_returns[r].chapters[k].parent_temp_id =
                   parse_returns[r].chapters[j].temp_id
            /\ parse_returns[r].chapters[j].parent_temp_id # NoTempId

\* exactly one invocation of the job was submitted and it reported success
OneJobSucceeded ==
    /\ started = 1
    /\ inv[1].pc = "done" /\ inv[1].status = "success"

\* C12: after the post-pass of a job that reports success no
\* {{IMAGE_ORDER_n}} token remains in the stored content of any chapter, also
\* when an insert returned no identifier.
C12_NoOrderTokenLeft ==
    OneJobSucceeded =>
        \A r \in chapters : \A t \in 1..Len(r.content) : r.content[t][1] # "ORDER"

\* the stored chapters whose parent is p
ChildrenOf(p) == {r \in chapters : r.parent_id = p}

\* C15: after the chapters of one parse are persisted, the order_index values
\* of the children of every parent (the null parent included) are exactly
\* 0, 1, ..., k-1, in document order.
C15_SiblingOrderDense ==
    OneJobSucceeded =>
        \A p \in {r.parent_id : r \in chapters} :
            /\ {r.order_index : r \in ChildrenOf(p)} = 0..(Cardinality(ChildrenOf(p)) - 1)
            /\ \A r1, r2 \in ChildrenOf(p) :
                  r1.temp_id < r2.temp_id => r1.order_index < r2.order_index

\* two style-numbered headings of the same depth with no style-numbered
\* heading of a smaller depth between them
Siblings(log, i, j) ==
    /\ i < j
    /\ log[i].level = log[j].level
    /\ \A k \in (i + 1)..(j - 1) : log[k].level >= log[i].level

\* C16: after every style-numbered heading of depth d the counters of the
\* depths greater than d are zero, and two sibling headings of the same depth
\* never receive the same generated number.
C16_AutoNumbering ==
    /\ \A i \in 1..Len(auto_numbered) :
          \A k \in (auto_numbered[i].level + 1)..MaxSlots :
              auto_numbered[i].heading_counters[k] = 0
    /\ \A i, j \in 1..Len(auto_numbered) :
          Siblings(auto_numbered, i, j) => auto_numbered[i].number # auto_numbered[j].number

\* two siblings with a deeper numbered heading between them
C16_Witness ==
    /\ Len(auto_numbered) = 3
    /\ Siblings(auto_numbered, 1, 3)
    /\ auto_numbered[2].level > auto_numbered[1].level

\* a section number without its trailing separators
RECURSIVE StripSeparators(_)
StripSeparators(number) ==
    IF number # <<>> /\ number[Len(number)] = EmptySegment
    THEN StripSeparators(SubSeq(number, 1, Len(number) - 1))
    ELSE number

\* the normal form of a section number: no leading zeros in any segment, no
\* trailing separator
NormalForm(number) == _normalize_section_number(StripSeparators(number))

\* C17: get_section_by_number(n) returns the section keyed by n when that
\* key exists; otherwise it returns a section exactly when some indexed
\* number has the normal form of n (leading zeros and trailing separators
\* stripped).
C17_LookupByNormalForm ==
    answer.op = "get_section_by_number" =>
        IF answer.request \in answer.keys THEN answer.key = answer.request
        ELSE (answer.key # None) <=>
                 \E key \in answer.keys : NormalForm(key) = NormalForm(answer.request)

\* C18: every requirement returned for a number that resolves to a section
\* carries the normalized number of that section as its section number.
C18_RequirementsCarryNormalForm ==
    (answer.op = "get_all_requirements_from_section" /\ answer.key # None) =>
        \A k \in 1..Len(answer.requirements) :
            answer.requirements[k].section = NormalForm(answer.key)

FirstOccurrence(scanned, n) ==
    First({k \in 1..Len(scanned) :
              scanned[k].kind = "num" /\ NormalForm(scanned[k].num) = n})

\* C20: the section_numbers returned by parse_instruction hold no
\* duplicate, every element is in normal form, the elements are in the order
\* of their first occurrence in the scanned text, and parsed is true exactly
\* when section_numbers is not empty.
C20_InstructionNumbers ==
    parse_result.action # "unparsed" =>
        LET section_numbers == parse_result.section_numbers
        IN /\ \A i, j \in 1..Len(section_numbers) :
                 i # j => section_numbers[i] # section_numbers[j]
           /\ \A i \in 1..Len(section_numbers) :
                 /\ NormalForm(section_numbers[i]) = section_numbers[i]
                 /\ \E k \in 1..Len(parse_result.scanned) :
                       /\ parse_result.scanned[k].kind = "num"
                       /\ NormalForm(parse_result.scanned[k].num) = section_numbers[i]
           /\ \A i, j \in 1..Len(section_numbers) :
                 i < j => FirstOccurrence(parse_result.scanned, section_numbers[i])
                              < FirstOccurrence(parse_result.scanned, section_numbers[j])
           /\ parse_result.parsed <=> (section_numbers # <<>>)

\* "01.2" and "1.2" in one instruction yield the single number "1.2"
C20_Witness ==
    /\ parse_result.parsed
    /\ parse_result.section_numbers = << <<1, 2>> >>
    /\ Len(SelectSeq(parse_result.scanned, LAMBDA tok : tok.kind = "num")) = 2

\* the order the groups are said to have: two numeric segments compare as
\* integers, any other two segments as texts
PartCompare(p, q) ==
    IF isdigit(p) /\ isdigit(q)
    THEN IF int(p) < int(q) THEN "lt" ELSE IF int(p) > int(q) THEN "gt" ELSE "eq"
    ELSE SeqCompare(CodePoints(p), CodePoints(q))

RECURSIVE NumeralAwareCompare(_, _, _)
NumeralAwareCompare(x, y, k) ==
    IF k > Len(x) \/ k > Len(y)
    THEN IF Len(x) < Len(y) THEN "lt" ELSE IF Len(x) > Len(y) THEN "gt" ELSE "eq"
    ELSE IF PartCompare(x[k], y[k]) # "eq" THEN PartCompare(x[k], y[k])
    ELSE NumeralAwareCompare(x, y, k + 1)

ExportedGroups == {SectionNum(export_results[k]) : k \in 1..Len(export_results)}

Ascending(sections) ==
    \A k \in 1..(Len(sections) - 1) :
        NumeralAwareCompare(Split(sections[k]), Split(sections[k + 1]), 1) \in {"lt", "eq"}

\* C21: both exports complete for every set of section numbers in the
\* results and emit every section group once, in ascending numeral-aware
\* order.
C21_ExportSorted ==
    exported.op # "none" =>
        /\ ~exported.raised
        /\ Members(exported.sections) = ExportedGroups
        /\ Len(exported.sections) = Cardinality(ExportedGroups)
        /\ Ascending(exported.sections)

\* the text of the paragraph matches one of SECTION_NUMBER_PATTERNS
ExplicitNumber(para) == para.form \in {"dotted", "chinese", "chapter"}

\* the paragraph carries a style named Heading N, 标题 N or Title N
NamedHeadingStyle(para) == _get_heading_level_from_style(para.style_name) # 0

\* C22: a paragraph with an explicit number is numbered from its own text,
\* a dotted number giving the level by its count of segments, and leaves the
\* auto-numbering counters unchanged whatever its style; the counters change
\* only for a paragraph without explicit number that carries a named heading
\* style.
C22_FirstMatchWins ==
    \A k \in 1..Len(title_log) :
        LET t == title_log[k]
        IN /\ ExplicitNumber(t.para) =>
                 /\ t.section_info.number = t.para.num
                 /\ t.para.form = "dotted" => t.section_info.level = Len(t.para.num)
                 /\ t.after = t.before
           /\ t.after # t.before =>
                 ~ExplicitNumber(t.para) /\ NamedHeadingStyle(t.para)

\* the paragraph has an outline level and no named heading style
OutlineLevelAlone(para) ==
    ~NamedHeadingStyle(para) /\ _get_paragraph_outline_level(para) # 0

\* C23: a paragraph with only an outline level is a heading only if its text
\* starts with a dotted number (or matches another explicit pattern); with a
\* plain list marker it opens no section and leaves the counters unchanged.
C23_OutlineAloneNeedsDot ==
    \A k \in 1..Len(title_log) :
        LET t == title_log[k]
        IN OutlineLevelAlone(t.para) =>
              /\ t.section_info # NoSection => ExplicitNumber(t.para)
              /\ t.para.form = "list" =>
                    t.section_info = NoSection /\ t.after = t.before

\* the requests whose task was sent to Celery
Submitted ==
    {r \in RequestIds : pd_req[r].pc = "done" /\ pd_req[r].response = "submitted"}

\* a request that reads the record in status processing is refused and
\* changes neither the record, nor the stored chapters, nor the tasks
RejectedWhileProcessing ==
    \A r \in RequestIds :
        (pd_req[r].pc = "start" /\ record_status = "processing" /\ pd_req'[r] # pd_req[r]) =>
            /\ pd_req'[r].pc = "done" /\ pd_req'[r].response = "error"
            /\ UNCHANGED <<record_status, timed_out, has_chapters, tasks>>

\* C24: while no process_document_task has finished, concurrent
\* process_document requests have submitted at most one task, and a request
\* that finds the record in status processing is rejected without any
\* effect.
C24_SingleSubmission ==
    /\ [](~finished => Cardinality(Submitted) <= 1)
    /\ [][RejectedWhileProcessing]_vars

\* no invocation is running and the one submitted last has completed
LastRunCompleted ==
    /\ started > 0
    /\ inv[started].pc = "done" /\ inv[started].status = "success"
    /\ \A w \in 1..started : inv[w].pc \in {"done", "stalled"}

\* C25: once process_document_task has completed for a document with rows
\* of an earlier run, every chapter_images row references a chapter that
\* exists in chapters.
C25_NoOrphanLinks ==
    LastRunCompleted =>
        \A ci \in chapter_images : ci.chapter_id \in {c.id : c \in chapters}

\* a run of process_document_task that ends leaves the record completed or
\* failed
FinishedRunSetsStatus ==
    /\ \A outcome \in WorkerOutcomes :
          (tasks'[outcome] < tasks[outcome] /\ lost' = lost) =>
              record_status' \in {"completed", "failed"}
    /\ \A r \in RequestIds :
          (pd_req[r].pc = "sync" /\ pd_req'[r].pc = "result") =>
              record_status' \in {"completed", "failed"}

\* a run of recover_orphaned_tasks that found the record marks it failed,
\* resets it to pending, or sends the task again and refreshes the start time
RecoverRunSettles ==
    /\ (rc = "found" /\ rc' = "idle") => record_status' \in {"failed", "pending"}
    /\ (rc = "found" /\ rc' = "sent") => tasks' # NoTasks
    /\ (rc = "sent" /\ rc' = "idle") => (record_status' = "processing" /\ ~timed_out')

ValidChunkList(session_data) ==
    LET uploaded_chunks == session_data.uploaded_chunks
    IN /\ \A i \in 1..Len(uploaded_chunks) :
             uploaded_chunks[i] \in 0..(session_data.total_chunks - 1)
       /\ \A i, j \in 1..Len(uploaded_chunks) :
             i < j => uploaded_chunks[i] < uploaded_chunks[j]

AllChunksUploaded ==
    \A i \in 0..(get_upload_session.total_chunks - 1) : i \in chunk_files

\* the session gets the status merging, and merge_chunks_task is sent, only
\* when a file was written for every chunk of the file
MergeOnlyWhenComplete ==
    /\ (get_upload_session.status # "merging" /\ get_upload_session'.status = "merging")
          => AllChunksUploaded
    /\ \A r \in UploadIds :
          (up_req[r].pc = "delay" /\ up_req'[r].pc = "done") => AllChunksUploaded

\* C27: after any upload_chunk calls the session's uploaded_chunks holds
\* only indices in 0..total_chunks-1, each once, ascending; complete_upload
\* sets the status merging and starts merge_chunks_task only when every
\* chunk index 0..total_chunks-1 has been uploaded.
C27_UploadComplete ==
    /\ [](ValidChunkList(get_upload_session))
    /\ [][MergeOnlyWhenComplete]_vars

\* the upload_chunk requests that returned success
Succeeded ==
    {r \in UploadIds : /\ up_req[r].op = "upload_chunk"
                       /\ up_req[r].pc = "done"
                       /\ up_req[r].response = "success"}

\* C28: when two upload_chunk requests for different chunk indices of the
\* session have both returned success, both indices are in the session's
\* uploaded_chunks.
C28_NoLostChunk ==
    \A r1, r2 \in Succeeded :
        (/\ up_req[r1].chunk_index >= 0 /\ up_req[r2].chunk_index >= 0
         /\ up_req[r1].chunk_index # up_req[r2].chunk_index) =>
            /\ InList(up_req[r1].chunk_index, get_upload_session.uploaded_chunks)
            /\ InList(up_req[r2].chunk_index, get_upload_session.uploaded_chunks)

\* C29: the chapter the LLM-scored semantic tier returns is one of the
\* candidates shown in the prompt; a best_match_index of zero, a negative
\* one, or one greater than the number of candidates shown selects nothing.
C29_PickWasPresented ==
    (sem_pick # NotCalled /\ sem_pick # 0) =>
        sem_pick \in 1..Presented(sem_matcher, sem_len)

\* C30: within one call of parse_document_structure no two headings numbered
\* by the counters receive the same section number, whatever the sequence of
\* heading levels.
C30_AutoNumbersDistinct ==
    \A i, j \in 1..Len(auto_numbered) :
        i < j => auto_numbered[i].number # auto_numbered[j].number

====
